---------------------------- MODULE Spec2Model ----------------------------
(***************************************************************************)
(* Verification model of the poultry-farm MAPE-K platform.                 *)
(*                                                                         *)
(* Part I  : the barn simulator (environment/model.py, environment/main.py)*)
(* Part II : the status-driven planner (planner/planner_service.py)        *)
(* Part III: the message bus between planner and executor                  *)
(*           (planner/planner_service.py, executor/executor_service.py)    *)
(* Part IV : monitor, Knowledge and analyzer (monitor/monitor_service.py,  *)
(*           common/knowledge.py, analyzer/analyzer_service.py)            *)
(* Part V  : the supervisor of the simulator workers (environment/main.py) *)
(* Part VI : the executor's start (executor/executor_service.py)           *)
(* Part VII: the issue-driven planner with starvation handling             *)
(*           (src/planner/Computation.py, src/planner/main.py)             *)
(* Part VIII: the threads of a simulator worker (environment/main.py)      *)
(*                                                                         *)
(* Number representation.  The program computes with IEEE doubles; the     *)
(* model computes with integers in thousandths ("milli") of the program's  *)
(* unit: 23.0 degC is 23000, 40 % is 40000, 1500 ppm is 1500000, 20 kg is  *)
(* 20000000 mg ... Simulated time and dt_s are whole seconds in the        *)
(* simulator; the planner's wall clock is in tenths of a second.  Products *)
(* are divided in stages so that every intermediate stays below 2^31.      *)
(***************************************************************************)
EXTENDS Integers, Sequences, FiniteSets, TLC

VARIABLES
    state,                  \* simulator: EnvironmentState of the zone
    SIM_STEP_S,             \* simulator: dt_s of every tick of this run
    accepted,               \* simulator: number of commands accepted so far
    last_op,                \* simulator: the operation that ran last; a command
                            \* records whether it repeats the one before and
                            \* the command before it since the last tick; a
                            \* tick records the commands applied just before it
    fan_prev_transition_s,  \* simulator: time of the latest fan_on flip, -1 if none
    sys_config,             \* planner: resolved configuration of the zone
    now,                    \* planner: time.time(), tenths of a second
    HEATER_STATE,           \* planner: _HEATER_STATE
    HEATER_SWITCH_TS,       \* planner: _HEATER_SWITCH_TS
    REFILL_STATE,           \* planner: _REFILL_STATE
    LAST_LEVELS,            \* planner: _LAST_LEVELS
    LAST_TS,                \* planner: _LAST_TS
    status,                 \* planner: the status handled last
    plan,                   \* planner: the actions built for it
    emitted,                \* planner: actuator -> last emitted level and its time
    heater_flip_ts,         \* planner: time of the latest heater latch flip, -1 if none
    scenario_pos,           \* planner: how far the statuses follow FeedScenario
    handled,                \* planner: number of statuses handled so far
    planner_in,             \* bus: the status message the planner received last
    planner_out,            \* bus: the messages the planner published for it
    executor_in,            \* bus: the plan message the executor received last
    executor_out,           \* bus: the messages the executor published for it
    actuator_log,           \* knowledge: log_actuator_command entries written for it
    executor_pc,            \* executor: "start" before _log_startup_off, "up" once
                            \* subscribed, "crashed" when start_executor has raised
    startup_out,            \* bus: the messages _log_startup_off published
    sensor_msg,             \* monitor: the sensor message published last
    sensor_count,           \* monitor: number of sensor messages published so far
    sensor_points,          \* knowledge: tags -> latest value of the sensors measurement
    analyzer_config,        \* analyzer: system_config of its latest cycle
    analyzer_errors,        \* analyzer: zone's turn -> where that cycle raised for it
    symptom_points,         \* knowledge: the symptoms written in that cycle
    status_out,             \* analyzer: the status messages published in that cycle
    topology_file,          \* system_config.json: its content
    file_mtime,             \* system_config.json: its modification time
    last_mtime,             \* supervisor: last_mtime
    runners,                \* supervisor: (farm, zone) -> worker
    workers,                \* the EnvironmentRunner threads created so far
    computation,            \* issue planner: the Computation singleton
    analysis_payload,       \* issue planner: the farm/analysis message handled last
    planning,               \* issue planner: what Planner.plan computed for it
    farm_plan,              \* issue planner: the farm/plan message it published
    published_at,           \* issue planner: actuator -> seconds since an action
                            \* for it was last published
    runner_threads          \* runner: the lock, the places of the callback thread
                            \* and of the loop thread, the snapshot, and the
                            \* state as whole operations alone would leave it

simVars == <<state, SIM_STEP_S, accepted, last_op, fan_prev_transition_s>>

planVars == <<sys_config, now, HEATER_STATE, HEATER_SWITCH_TS, REFILL_STATE,
              LAST_LEVELS, LAST_TS, status, plan, emitted, heater_flip_ts,
              scenario_pos, handled>>

busVars == <<planner_in, planner_out, executor_in, executor_out, actuator_log,
             executor_pc, startup_out>>

knowVars == <<sensor_msg, sensor_count, sensor_points, analyzer_config,
              analyzer_errors, symptom_points, status_out>>

fileVars == <<topology_file, file_mtime>>

supVars == <<last_mtime, runners, workers>>

compVars == <<computation, analysis_payload, planning, farm_plan, published_at>>

lockVars == <<runner_threads>>

vars == <<state, SIM_STEP_S, accepted, last_op, fan_prev_transition_s,
          sys_config, now, HEATER_STATE, HEATER_SWITCH_TS, REFILL_STATE,
          LAST_LEVELS, LAST_TS, status, plan, emitted, heater_flip_ts,
          scenario_pos, handled,
          planner_in, planner_out, executor_in, executor_out, actuator_log,
          executor_pc, startup_out,
          sensor_msg, sensor_count, sensor_points, analyzer_config, analyzer_errors,
          symptom_points,
          status_out, topology_file, file_mtime, last_mtime, runners, workers,
          computation, analysis_payload, planning, farm_plan, published_at,
          runner_threads>>

-----------------------------------------------------------------------------
(* Generic helpers                                                         *)

Max(a, b) == IF a >= b THEN a ELSE b

Min(a, b) == IF a <= b THEN a ELSE b

Abs(a) == IF a >= 0 THEN a ELSE 0 - a

\* dict.get(key, default)
Get(d, key, default) == IF key \in DOMAIN d THEN d[key] ELSE default

\* the value None of an optional number: an integer no quantity of the
\* program takes, so that a test "x is None" is an integer comparison
None == 0 - 999999999

-----------------------------------------------------------------------------
(* Part I : simulator constants (environment/model.py)                     *)

STARTUP_OVERRIDE_S == 60

BARN_VOLUME_M3 == 600

BARN_UA_W_PER_K == 250

THERMAL_MASS_FACTOR == 3

\* AIR_DENSITY * AIR_CP = 1.2 * 1005.0, J/(m3 K)
AIR_RHO_CP == 1206

\* FAN_MAX_FLOW_M3_S = 4.0, in litres per second
FAN_MAX_FLOW_L_S == 4000

\* BASE_INFILTRATION_M3_S = 0.15, in litres per second
BASE_INFILTRATION_L_S == 150

HEATER_POWER_W == 20000

BIRD_COUNT == 2000

BIRD_HEAT_W_BASE == 10

BIRD_HEAT_W_ACTIVITY == 6

\* CO2_LPS_PER_BIRD = 0.0012 L/s, in microlitres per second
CO2_UL_S_PER_BIRD == 1200

\* CO2_ACTIVITY_MULT = NH3_ACTIVITY_MULT = 1.5, in thousandths
CO2_ACTIVITY_MULT == 1500

NH3_ACTIVITY_MULT == 1500

\* NH3_MG_S_PER_BIRD = 0.04 mg/s, in micrograms per second
NH3_UG_S_PER_BIRD == 40

\* NH3_TEMP_COEFF = 0.04 per degC: one part in 25
NH3_TEMP_COEFF_INV == 25

\* NH3_DECAY_PER_S = 1/3600
NH3_DECAY_INV_S == 3600

OUTSIDE_TEMP_BASE_C == 16000

OUTSIDE_TEMP_SWING_C == 7

OUTSIDE_TEMP_PERIOD_S == 86400

OUTSIDE_CO2_PPM == 420000

\* FEED_G_PER_BIRD_DAY = 110 g, in milligrams
FEED_MG_PER_BIRD_DAY == 110000

\* WATER_L_PER_BIRD_DAY = 0.25 L, in microlitres
WATER_UL_PER_BIRD_DAY == 250000

\* FEED_ACTIVITY_MULT = 0.8, WATER_ACTIVITY_MULT = 1.1, in thousandths
FEED_ACTIVITY_MULT == 800

WATER_ACTIVITY_MULT == 1100

FEED_HOPPER_CAPACITY_KG == 30000000

WATER_TANK_CAPACITY_L == 20000

\* FEED_REFILL_FLOW_KG_S = 0.02 kg/s, in mg/s
FEED_REFILL_FLOW_KG_S == 20000

\* WATER_REFILL_FLOW_L_S = 0.15 L/s, in ml/s
WATER_REFILL_FLOW_L_S == 150

FEED_INITIAL_KG == Min(20000000, FEED_HOPPER_CAPACITY_KG)

WATER_INITIAL_L == Min(15000, WATER_TANK_CAPACITY_L)

FAN_ON_TEMP_C == 25000

FAN_OFF_TEMP_C == 23000

HEATER_ON_TEMP_C == 20000

HEATER_OFF_TEMP_C == 24000

AUTO_FAN_LEVEL == 60000

MIN_FAN_ON_S == 120

MIN_FAN_OFF_S == 120

AUTO_CONTROL_TIMEOUT_S == 300

FAN_STAGES == <<0, 40000, 70000, 100000>>

\* INLET_FOR_STAGE, keyed by the staged fan level
INLET_FOR_STAGE == [s \in {0, 40000, 70000, 100000} |->
                      CASE s = 0 -> 10000
                        [] s = 40000 -> 40000
                        [] s = 70000 -> 60000
                        [] OTHER -> 80000]

SIM_LIGHTS_ON_H == 6000

SIM_LIGHTS_OFF_H == 22000

LIGHT_DAY_PCT == 70000

LIGHT_NIGHT_PCT == 5000

\* ramps, percent per minute
FAN_RAMP_PER_MIN == 40

HEATER_RAMP_PER_MIN == 60

INLET_RAMP_PER_MIN == 60

LIGHT_RAMP_PER_MIN == 80

ACTIVITY_TIME_CONSTANT_MIN == 15


-----------------------------------------------------------------------------
(* Part I : simulator state and pure helpers                               *)

\* EnvironmentState(auto_control = AUTO_CONTROL), with temperature_c taken
\* from the zone's config_overrides when the topology gives one
EnvironmentState(temperature_c, auto_control) ==
    [ temperature_c |-> temperature_c,
      co2_ppm |-> 1500000,
      nh3_ppm |-> 12000,
      feed_kg |-> FEED_INITIAL_KG,
      water_l |-> WATER_INITIAL_L,
      activity |-> 400,
      fan_level |-> 0,
      fan_level_command |-> 0,
      fan_on |-> FALSE,
      fan_last_switch_s |-> 0,
      fan_cmd_last_s |-> 0,
      heater_level |-> 0,
      heater_level_command |-> 0,
      heater_cmd_last_s |-> 0,
      inlet_open_pct |-> 30000,
      inlet_open_pct_command |-> 30000,
      inlet_cmd_last_s |-> 0,
      light_level_pct |-> 30000,
      light_level_pct_command |-> 30000,
      light_cmd_last_s |-> 0,
      feed_refill_on |-> FALSE,
      feed_refill_remaining_s |-> 0,
      water_refill_on |-> FALSE,
      water_refill_remaining_s |-> 0,
      auto_control |-> auto_control,
      sim_time_s |-> 0,
      bird_count |-> BIRD_COUNT,
      barn_volume_m3 |-> BARN_VOLUME_M3 ]

\* _clamp
Clamp(value, low, high) == Max(low, Min(high, value))

\* math.sin(2 pi t / 86400) in thousandths, t in seconds, by Bhaskara's
\* rational approximation sin(2 pi p) = 32 p (1 - 2p) / (5 - 8 p (1 - 2p))
\* on the first half period (absolute error below 0.002)
SinDay(t) ==
    LET P == OUTSIDE_TEMP_PERIOD_S
        r == t % P
        h == IF r <= P \div 2 THEN r ELSE r - P \div 2
        q == (h * (P - 2 * h)) \div 1000
        p2 == (P \div 10) * (P \div 100)
        v == (32 * q) \div ((5 * p2 - 8 * q) \div 1000)
    IN  IF r <= P \div 2 THEN v ELSE 0 - v

\* _outside_temp with USE_HOST_TIME false
OutsideTemp(sim_time_s) ==
    OUTSIDE_TEMP_BASE_C + OUTSIDE_TEMP_SWING_C * SinDay(sim_time_s)

\* _time_of_day_h with USE_HOST_TIME false, in thousandths of an hour
TimeOfDayH(sim_time_s) == ((sim_time_s % 86400) * 1000) \div 3600

\* _stage_fan_level
StageFanLevel(command_level) ==
    IF command_level <= 0 THEN 0
    ELSE IF command_level <= FAN_STAGES[2] THEN FAN_STAGES[2]
    ELSE IF command_level <= FAN_STAGES[3] THEN FAN_STAGES[3]
    ELSE FAN_STAGES[4]

\* _ventilation_flow_m3_s, in litres per second
VentilationFlow(fan_level, inlet_open_pct) ==
    LET inlet_factor == 200 + (8 * inlet_open_pct) \div 1000
        fan_flow == ((FAN_MAX_FLOW_L_S \div 100) * ((fan_level * inlet_factor) \div 1000)) \div 1000
    IN  BASE_INFILTRATION_L_S + fan_flow

\* one actuator ramp: move level toward target by at most rate * dt_s / 60
Ramp(level, target, rate_per_min, dt_s) ==
    LET max_step == (rate_per_min * 1000 * dt_s) \div 60
        delta == target - level
        d == IF delta > max_step THEN max_step
             ELSE IF delta < 0 - max_step THEN 0 - max_step
             ELSE delta
    IN  Clamp(level + d, 0, 100000)


-----------------------------------------------------------------------------
(* Part I : step(state, dt_s)                                              *)

\* a staleness test that knows only the never-commanded actuator
StaleNeverCommanded(cmd_last_s, t) == cmd_last_s = 0

\* a staleness test that takes every command for stale
StaleAlways(cmd_last_s, t) == TRUE

\* {actuator}_cmd_last_s == 0.0 or now - {actuator}_cmd_last_s >= timeout
Stale(cmd_last_s, t) ==
    cmd_last_s = 0 \/ t - cmd_last_s >= AUTO_CONTROL_TIMEOUT_S

\* a step without the auto-control fallback
AutoControlOff(s) == s

\* section 0 of step: the auto-control fallback, s already carries the new
\* sim_time_s
AutoControl(s) ==
    LET t == s.sim_time_s
        fan_cmd ==
            IF Stale(s.fan_cmd_last_s, t)
            THEN IF s.temperature_c >= FAN_ON_TEMP_C
                 THEN Max(s.fan_level_command, AUTO_FAN_LEVEL)
                 ELSE IF s.temperature_c <= FAN_OFF_TEMP_C THEN 0
                 ELSE s.fan_level_command
            ELSE s.fan_level_command
        heater_cmd ==
            IF Stale(s.heater_cmd_last_s, t)
            THEN IF s.temperature_c <= HEATER_ON_TEMP_C THEN 100000
                 ELSE IF s.temperature_c >= HEATER_OFF_TEMP_C THEN 0
                 ELSE s.heater_level_command
            ELSE s.heater_level_command
        inlet_cmd ==
            IF Stale(s.inlet_cmd_last_s, t)
            THEN INLET_FOR_STAGE[StageFanLevel(fan_cmd)]
            ELSE s.inlet_open_pct_command
        light_cmd ==
            IF Stale(s.light_cmd_last_s, t)
            THEN IF SIM_LIGHTS_ON_H <= TimeOfDayH(t) /\ TimeOfDayH(t) < SIM_LIGHTS_OFF_H
                 THEN LIGHT_DAY_PCT
                 ELSE LIGHT_NIGHT_PCT
            ELSE s.light_level_pct_command
    IN  [s EXCEPT !.fan_level_command = fan_cmd,
                  !.heater_level_command = heater_cmd,
                  !.inlet_open_pct_command = inlet_cmd,
                  !.light_level_pct_command = light_cmd]

\* the startup override and the clamp of the requested actuator values
OverrideAndClamp(s) ==
    LET o == IF s.sim_time_s < STARTUP_OVERRIDE_S
             THEN [s EXCEPT !.fan_level_command = 0,
                            !.heater_level_command = 0,
                            !.inlet_open_pct_command = 0,
                            !.light_level_pct_command = 0]
             ELSE s
    IN  [o EXCEPT !.fan_level_command = Clamp(o.fan_level_command, 0, 100000),
                  !.heater_level_command = Clamp(o.heater_level_command, 0, 100000),
                  !.inlet_open_pct_command = Clamp(o.inlet_open_pct_command, 0, 100000),
                  !.light_level_pct_command = Clamp(o.light_level_pct_command, 0, 100000)]

\* a fan_on state machine that follows the command at once
FanSwitchNoDwell(s) ==
    LET desired_fan_on == s.fan_level_command > 0
    IN  IF desired_fan_on # s.fan_on
        THEN [s EXCEPT !.fan_on = desired_fan_on, !.fan_last_switch_s = s.sim_time_s]
        ELSE s

\* the fan_on state machine with its minimum on / off durations
FanSwitch(s) ==
    LET t == s.sim_time_s
        desired_fan_on == s.fan_level_command > 0
        elapsed == t - s.fan_last_switch_s
    IN  IF desired_fan_on # s.fan_on
        THEN IF desired_fan_on /\ elapsed >= MIN_FAN_OFF_S
             THEN [s EXCEPT !.fan_on = TRUE, !.fan_last_switch_s = t]
             ELSE IF (~desired_fan_on) /\ elapsed >= MIN_FAN_ON_S
             THEN [s EXCEPT !.fan_on = FALSE, !.fan_last_switch_s = t]
             ELSE s
        ELSE s

\* section 1 of step: actuator dynamics
ActuatorDynamics(s, dt_s) ==
    LET f == FanSwitch(s)
        staged_target == StageFanLevel(f.fan_level_command)
        target_fan_level == IF f.fan_on THEN staged_target ELSE 0
    IN  [f EXCEPT !.fan_level = Ramp(f.fan_level, target_fan_level, FAN_RAMP_PER_MIN, dt_s),
                  !.heater_level = Ramp(f.heater_level, f.heater_level_command, HEATER_RAMP_PER_MIN, dt_s),
                  !.inlet_open_pct = Ramp(f.inlet_open_pct, f.inlet_open_pct_command, INLET_RAMP_PER_MIN, dt_s),
                  !.light_level_pct = Ramp(f.light_level_pct, f.light_level_pct_command, LIGHT_RAMP_PER_MIN, dt_s)]

\* sections 2 and 3 of step: ventilation flow and temperature, powers in mW
Temperature(s, dt_s) ==
    LET flow == VentilationFlow(s.fan_level, s.inlet_open_pct)
        dT == s.temperature_c - OutsideTemp(s.sim_time_s)
        heat_capacity == AIR_RHO_CP * s.barn_volume_m3 * THERMAL_MASS_FACTOR
        q_loss == BARN_UA_W_PER_K * dT
        q_vent == AIR_RHO_CP * ((flow * dT) \div 1000)
        q_heater == (HEATER_POWER_W \div 100) * s.heater_level
        bird_heat_w == s.bird_count * (BIRD_HEAT_W_BASE * 1000 + BIRD_HEAT_W_ACTIVITY * s.activity)
        q == q_heater + bird_heat_w - q_loss - q_vent
        dtemp_dt == ((q \div 100) * dt_s) \div (heat_capacity \div 100)
    IN  [s EXCEPT !.temperature_c = Clamp(s.temperature_c + dtemp_dt, 10000, 40000)]

\* sections 4 and 5 of step: CO2 and NH3 mass balances, rates in
\* thousandths of a ppm per second
Gases(s, dt_s) ==
    LET flow == VentilationFlow(s.fan_level, s.inlet_open_pct)
        V == s.barn_volume_m3
        co2_gen == (((CO2_UL_S_PER_BIRD * s.bird_count) \div V)
                      * (1000 + (CO2_ACTIVITY_MULT * s.activity) \div 1000)) \div 1000
        co2_vent == (flow * ((OUTSIDE_CO2_PPM - s.co2_ppm) \div 1000)) \div V
        co2 == Clamp(s.co2_ppm + (co2_gen + co2_vent) * dt_s, 400000, 6000000)
        temp_factor == Max(0, s.temperature_c - 20000)
        nh3_ug_s == (((NH3_UG_S_PER_BIRD * s.bird_count
                        * (1000 + (NH3_ACTIVITY_MULT * s.activity) \div 1000)) \div 1000)
                      * (1000 + temp_factor \div NH3_TEMP_COEFF_INV)) \div 1000
        nh3_gen == ((nh3_ug_s \div V) * 2445) \div 1700
        nh3_vent == 0 - ((flow * s.nh3_ppm) \div (1000 * V))
        nh3_decay == 0 - (s.nh3_ppm \div NH3_DECAY_INV_S)
        nh3 == Clamp(s.nh3_ppm + (nh3_gen + nh3_vent + nh3_decay) * dt_s, 0, 200000)
    IN  [s EXCEPT !.co2_ppm = co2, !.nh3_ppm = nh3]

\* a refill that does not stop at the capacity
RefillUncapped(level, capacity, amount) == level + amount

\* an active refill adds the flow of one step, up to the capacity
RefillTo(level, capacity, amount) == Min(capacity, level + amount)

\* section 6 of step: feed (mg) and water (ml) consumption and refill
FeedWater(s, dt_s) ==
    LET feed_base == ((s.bird_count * FEED_MG_PER_BIRD_DAY) \div 86400)
        feed_r0 == (feed_base * (600 + (FEED_ACTIVITY_MULT * s.activity) \div 1000)) \div 1000
        feed_r1 == IF s.temperature_c > 28000 THEN (feed_r0 * 9) \div 10 ELSE feed_r0
        feed_r2 == IF s.temperature_c < 18000 THEN (feed_r1 * 85) \div 100 ELSE feed_r1
        feed_rate == IF s.water_l < 1000 THEN (feed_r2 * 7) \div 10 ELSE feed_r2
        feed_0 == Max(0, s.feed_kg - feed_rate * dt_s)
        feed_rem == IF s.feed_refill_remaining_s > 0
                    THEN Max(0, s.feed_refill_remaining_s - dt_s * 1000)
                    ELSE s.feed_refill_remaining_s
        feed_refill_active == s.feed_refill_on \/ feed_rem > 0
        feed == IF feed_refill_active
                THEN RefillTo(feed_0, FEED_HOPPER_CAPACITY_KG, FEED_REFILL_FLOW_KG_S * dt_s)
                ELSE feed_0
        water_base == ((s.bird_count * (WATER_UL_PER_BIRD_DAY \div 10)) \div 8640)
        water_r0 == (water_base * (700 + (WATER_ACTIVITY_MULT * s.activity) \div 1000)) \div 1000
        water_r1 == IF s.temperature_c > 26000 THEN (water_r0 * 12) \div 10 ELSE water_r0
        water_rate == IF s.temperature_c < 18000 THEN (water_r1 * 9) \div 10 ELSE water_r1
        water_0 == Max(0, s.water_l - (water_rate * dt_s) \div 1000)
        water_rem == IF s.water_refill_remaining_s > 0
                     THEN Max(0, s.water_refill_remaining_s - dt_s * 1000)
                     ELSE s.water_refill_remaining_s
        water_refill_active == s.water_refill_on \/ water_rem > 0
        water == IF water_refill_active
                 THEN RefillTo(water_0, WATER_TANK_CAPACITY_L, WATER_REFILL_FLOW_L_S * dt_s)
                 ELSE water_0
    IN  [s EXCEPT !.feed_kg = feed, !.feed_refill_remaining_s = feed_rem,
                  !.water_l = water, !.water_refill_remaining_s = water_rem]

\* section 7 of step: activity relaxes toward its target
Activity(s, dt_s) ==
    LET circadian == 500 + SinDay((s.sim_time_s % 86400) + 86400 - 21600) \div 2
        light_factor == s.light_level_pct \div 100
        t0 == 150 + (5 * light_factor) \div 10 + (2 * circadian) \div 10
        t1 == IF s.temperature_c < 20000 \/ s.temperature_c > 30000 THEN t0 - 200 ELSE t0
        t2 == IF s.co2_ppm > 3000000 THEN t1 - 150 ELSE t1
        t3 == IF s.nh3_ppm > 20000 THEN t2 - 150 ELSE t2
        t4 == IF s.feed_kg < 1000000 THEN t3 - 100 ELSE t3
        t5 == IF s.water_l < 1000 THEN t4 - 100 ELSE t4
        target_activity == Clamp(t5, 0, 1000)
        activity_tau_s == ACTIVITY_TIME_CONSTANT_MIN * 60
    IN  [s EXCEPT !.activity =
            Clamp(s.activity + ((target_activity - s.activity) * dt_s) \div activity_tau_s, 0, 1000)]

\* step(state, dt_s)
Step(s, dt_s) ==
    LET s0 == [s EXCEPT !.sim_time_s = s.sim_time_s + dt_s]
        auto_control_active == s0.auto_control /\ s0.sim_time_s >= STARTUP_OVERRIDE_S
        s1 == IF auto_control_active THEN AutoControl(s0) ELSE s0
        s2 == OverrideAndClamp(s1)
        s3 == ActuatorDynamics(s2, dt_s)
        s4 == Temperature(s3, dt_s)
        s5 == Gases(s4, dt_s)
        s6 == FeedWater(s5, dt_s)
    IN  Activity(s6, dt_s)


-----------------------------------------------------------------------------
(* Part I : EnvironmentRunner._apply_command and the runner's actions      *)

\* max(0.0, min(100.0, float(x)))
ClampLevel(x) == Max(0, Min(100000, x))

\* the feed_dispenser / water_valve branch test and its "on" value:
\* "on" in data or action in {"ON", "OFF"}
IsOnOff(data) == "on" \in DOMAIN data \/ Get(data, "action", "") \in {"ON", "OFF"}

OnValue(data) == IF "on" \in DOMAIN data THEN data["on"] ELSE data["action"] = "ON"

\* a JSON value that float() does not accept, such as the string "high"
NotANumber == 0 - 999999997

\* the float() call of the actuator's branch raises ValueError
FloatRaises(actuator, data) ==
    CASE actuator = "fan" -> Get(data, "level", 0) = NotANumber
      [] actuator = "heater" -> Get(data, "level_pct", 0) = NotANumber
      [] actuator = "inlet" -> Get(data, "open_pct", 0) = NotANumber
      [] actuator = "feed_dispenser" ->
            ~IsOnOff(data) /\ Get(data, "amount_g", 0) = NotANumber
      [] actuator = "water_valve" ->
            ~IsOnOff(data) /\ Get(data, "duration_s", 0) = NotANumber
      [] actuator = "light" -> Get(data, "level_pct", 0) = NotANumber
      [] OTHER -> FALSE

\* the actuator branches of _apply_command
ApplyAccepted(s, actuator, data) ==
         CASE actuator = "fan" ->
                [s EXCEPT !.fan_level_command = ClampLevel(Get(data, "level", 0)),
                          !.fan_cmd_last_s = s.sim_time_s]
           [] actuator = "heater" ->
                IF "level_pct" \in DOMAIN data
                THEN [s EXCEPT !.heater_level_command = ClampLevel(data["level_pct"]),
                               !.heater_cmd_last_s = s.sim_time_s]
                ELSE IF Get(data, "action", "") \in {"ON", "OFF"}
                THEN [s EXCEPT !.heater_level_command =
                                   IF data["action"] = "ON" THEN 100000 ELSE 0,
                               !.heater_cmd_last_s = s.sim_time_s]
                ELSE s
           [] actuator = "inlet" ->
                [s EXCEPT !.inlet_open_pct_command = ClampLevel(Get(data, "open_pct", 0)),
                          !.inlet_cmd_last_s = s.sim_time_s]
           [] actuator = "feed_dispenser" ->
                IF IsOnOff(data)
                THEN [s EXCEPT !.feed_refill_on = OnValue(data)]
                ELSE LET amount_kg == Max(0, Get(data, "amount_g", 0))
                     IN  IF amount_kg > 0 /\ FEED_REFILL_FLOW_KG_S > 0
                         THEN [s EXCEPT !.feed_refill_remaining_s =
                                   amount_kg \div (FEED_REFILL_FLOW_KG_S \div 1000)]
                         ELSE s
           [] actuator = "water_valve" ->
                IF IsOnOff(data)
                THEN [s EXCEPT !.water_refill_on = OnValue(data)]
                ELSE [s EXCEPT !.water_refill_remaining_s =
                          Max(0, Get(data, "duration_s", 0))]
           [] actuator = "light" ->
                [s EXCEPT !.light_level_pct_command = ClampLevel(Get(data, "level_pct", 0)),
                          !.light_cmd_last_s = s.sim_time_s]
           [] OTHER -> s

\* a command handler without the startup override
ApplyCommandNoLockout(s, actuator, data) == ApplyAccepted(s, actuator, data)

\* a command handler that adds a fan level to the target it finds
ApplyCommandAdditive(s, actuator, data) ==
    IF s.sim_time_s < STARTUP_OVERRIDE_S THEN s
    ELSE IF actuator = "fan"
    THEN [s EXCEPT !.fan_level_command =
                       ClampLevel(s.fan_level_command + Get(data, "level", 0)),
                   !.fan_cmd_last_s = s.sim_time_s]
    ELSE ApplyAccepted(s, actuator, data)

\* a command handler whose OFF also cancels the countdown of a timed refill
ApplyCommandOffCancels(s, actuator, data) ==
    IF s.sim_time_s < STARTUP_OVERRIDE_S THEN s
    ELSE IF FloatRaises(actuator, data) THEN s
    ELSE IF actuator = "water_valve" /\ IsOnOff(data) /\ ~OnValue(data)
    THEN [s EXCEPT !.water_refill_on = FALSE, !.water_refill_remaining_s = 0]
    ELSE IF actuator = "feed_dispenser" /\ IsOnOff(data) /\ ~OnValue(data)
    THEN [s EXCEPT !.feed_refill_on = FALSE, !.feed_refill_remaining_s = 0]
    ELSE ApplyAccepted(s, actuator, data)

\* a command handler that keeps the fan target of the first command after a
\* tick
ApplyCommandFirstWins(s, actuator, data) ==
    IF s.sim_time_s < STARTUP_OVERRIDE_S THEN s
    ELSE IF FloatRaises(actuator, data) THEN s
    ELSE IF actuator = "fan" /\ s.fan_cmd_last_s = s.sim_time_s THEN s
    ELSE ApplyAccepted(s, actuator, data)

\* _apply_command(actuator, data): nothing is applied during the startup
\* override; float() of a value that is no number raises ValueError before
\* the branch assigns anything
ApplyCommand(s, actuator, data) ==
    IF s.sim_time_s < STARTUP_OVERRIDE_S THEN s
    ELSE IF FloatRaises(actuator, data) THEN s
    ELSE ApplyAccepted(s, actuator, data)

\* _on_message for a payload that is not JSON (the JSONDecodeError is
\* caught), JSON that is no object (data.get raises AttributeError), or an
\* object
OnMessage(s, m) ==
    IF m.kind # "object" THEN s
    ELSE ApplyCommand(s, m.actuator, m.data)

\* the command messages the bus delivers, numbers in thousandths
Commands ==
    { <<"fan", [action |-> "SET", level |-> 0 - 20000]>>,
      <<"fan", [action |-> "SET", level |-> 100000]>>,
      <<"fan", [action |-> "SET", level |-> 150000]>>,
      <<"heater", [action |-> "SET", level_pct |-> 100000]>>,
      <<"heater", [action |-> "OFF"]>>,
      <<"inlet", [action |-> "SET", open_pct |-> 50000]>>,
      <<"light", [action |-> "SET", level_pct |-> 120000]>>,
      <<"feed_dispenser", [action |-> "ON"]>>,
      <<"feed_dispenser", [action |-> "OFF"]>>,
      <<"feed_dispenser", [amount_g |-> 1200000]>>,
      <<"water_valve", [action |-> "ON"]>>,
      <<"water_valve", [action |-> "OFF"]>>,
      <<"water_valve", [duration_s |-> 90000]>> }

\* command payloads that are objects but malformed for their actuator: a
\* SET without its level, a level that is no number
MalformedObjects ==
    { <<"fan", [action |-> "SET"]>>,
      <<"light", [action |-> "SET", level_pct |-> NotANumber]>> }

\* the messages a worker receives on its cmd topics: payloads that are
\* objects, one that is not JSON, one that is a JSON array
ReceivedCommands ==
    { [actuator |-> c[1], kind |-> "object", data |-> c[2]] :
          c \in Commands \cup MalformedObjects }
    \cup { [actuator |-> "fan", kind |-> "invalid", data |-> <<>>],
           [actuator |-> "heater", kind |-> "array", data |-> <<>>] }

\* temperature_c of a new zone: the dataclass default, or a config override
InitialTemperatures == {23000, 26000}

\* SIM_STEP_S: the default (SENSOR_INTERVAL_S = 5.0) and a one-minute step
SimSteps == {5, 60}

MaxCommands == 2

MaxTicks == 14

MaxSimTime == 360

SimInit ==
    /\ state \in {EnvironmentState(T, TRUE) : T \in InitialTemperatures}
    /\ SIM_STEP_S \in SimSteps
    /\ accepted = 0
    /\ last_op = [op |-> "init"]
    /\ fan_prev_transition_s = 0 - 1

\* _on_message: a command arrives and is applied under the lock
OnCommand ==
    \E m \in ReceivedCommands :
        /\ state.sim_time_s < STARTUP_OVERRIDE_S \/ accepted < MaxCommands
        /\ state' = OnMessage(state, m)
        /\ accepted' = IF state.sim_time_s < STARTUP_OVERRIDE_S THEN accepted
                       ELSE accepted + 1
        /\ last_op' = [op |-> "cmd", actuator |-> m.actuator, data |-> m.data,
                        kind |-> m.kind,
                        prev |-> IF last_op.op = "cmd"
                                 THEN <<last_op.actuator, last_op.data>> ELSE <<>>,
                        repeat |-> /\ last_op.op = "cmd"
                                   /\ last_op.actuator = m.actuator
                                   /\ last_op.kind = m.kind
                                   /\ last_op.data = m.data]
        /\ UNCHANGED <<SIM_STEP_S, fan_prev_transition_s>>

\* _tick(SIM_STEP_S)
Tick ==
    /\ state.sim_time_s < MaxSimTime
    /\ state.sim_time_s < MaxTicks * SIM_STEP_S
    /\ state' = Step(state, SIM_STEP_S)
    /\ last_op' = [op |-> "tick",
                    cmd_before |-> IF last_op.op = "cmd"
                                   THEN <<last_op.actuator, last_op.data>> ELSE <<>>,
                    prev_before |-> IF last_op.op = "cmd" THEN last_op.prev ELSE <<>>]
    /\ fan_prev_transition_s' =
           IF state'.fan_on # state.fan_on THEN state'.sim_time_s
           ELSE fan_prev_transition_s
    /\ UNCHANGED <<SIM_STEP_S, accepted>>


-----------------------------------------------------------------------------
(* Part II : planner (planner/planner_service.py)                          *)
(* Levels, temperatures, gas and fill values are in thousandths; times and *)
(* durations are in tenths of a second; lights_on_h / lights_off_h are in  *)
(* thousandths of an hour.  Identifiers are sequences of string tokens, so *)
(* that f"{farm_id}/{zone}" is a concatenation.                            *)

\* d[k] = v
Put(d, k, v) == [x \in (DOMAIN d) \cup {k} |-> IF x = k THEN v ELSE d[x]]

\* the empty dict
EmptyDict == [x \in {} |-> 0]

\* int(x) of a float held in thousandths: truncation toward zero
PyInt(x) == IF x >= 0 THEN x \div 1000 ELSE 0 - ((0 - x) \div 1000)

\* the values cfg(key) resolves to for the zone
DefaultConfig ==
    [ temp_setpoint |-> 26000, co2_setpoint |-> 1500000, nh3_threshold |-> 25000,
      co2_max |-> 3000000,
      fan_kp_temp |-> 10000, fan_kp_co2 |-> 20, fan_max |-> 100000, fan_min |-> 0,
      heater_kp_temp |-> 20000, heater_deadband_c |-> 400,
      heater_min_on_s |-> 300, heater_min_off_s |-> 300,
      heater_min_level |-> 20000, heater_min_fan |-> 20000,
      fan_min_vent_pct |-> 10000, inlet_min_pct |-> 10000,
      fan_cold_max_pct |-> 30000, inlet_cold_max_pct |-> 30000,
      cold_vent_delta_c |-> 2000,
      light_activity_high |-> 700, activity_min |-> 300,
      light_min_day_pct |-> 30000, light_min_night_pct |-> 5000,
      lights_on_h |-> 6000, lights_off_h |-> 22000,
      fan_rate_limit_per_min |-> 80000, heater_rate_limit_per_min |-> 60000,
      inlet_rate_limit_per_min |-> 60000, light_rate_limit_per_min |-> 80000,
      feed_threshold |-> 1500, water_threshold |-> 800,
      feed_refill_low_kg |-> 1500, feed_refill_high_kg |-> 2500,
      water_refill_low_l |-> 5000, water_refill_high_l |-> 10000 ]

\* a rate limiter that lets every target through
RateLimitOff(levels, ts, key, target, max_rate_per_min, t) == target

\* _rate_limit: the new value; the caller stores it with the time t
RateLimit(levels, ts, key, target, max_rate_per_min, t) ==
    LET prev == Get(levels, key, target)
        prev_ts == Get(ts, key, t)
        dt == Max(1, t - prev_ts)
        max_delta == (max_rate_per_min * dt) \div 600
    IN  IF target > prev + max_delta THEN prev + max_delta
        ELSE IF target < prev - max_delta THEN prev - max_delta
        ELSE target

\* a refill state with the single threshold low
HysteresisOneThreshold(refill, key, value, low, high) ==
    IF value = None THEN Get(refill, key, FALSE) ELSE value <= low

\* _hysteresis_state: the returned state
HysteresisState(refill, key, value, low, high) ==
    LET st == Get(refill, key, FALSE)
    IN  IF value = None THEN st
        ELSE IF value <= low THEN TRUE
        ELSE IF value >= high THEN FALSE
        ELSE st

\* the key of _HEATER_STATE and _HEATER_SWITCH_TS: f"{farm_id}/{zone}"
HeaterKey(farm_id, zone) == farm_id \o <<"/">> \o zone

\* a heater latch without minimum on / off durations
HeaterOnStateNoDwell(hstate, hswitch, key, temp, setpoint, deadband, min_on_s, min_off_s, t) ==
    IF Get(hstate, key, FALSE)
    THEN IF temp >= setpoint + deadband THEN <<FALSE, t>>
         ELSE <<TRUE, Get(hswitch, key, t)>>
    ELSE IF temp # None /\ temp <= setpoint - deadband THEN <<TRUE, t>>
         ELSE <<FALSE, Get(hswitch, key, t)>>

\* _heater_on_state: the pair <<last_state, last_switch>> it stores
HeaterOnState(hstate, hswitch, key, temp, setpoint, deadband, min_on_s, min_off_s, t) ==
    LET last_state == Get(hstate, key, FALSE)
        last_switch == Get(hswitch, key, t)
    IN  IF last_state
        THEN IF temp >= setpoint + deadband /\ t - last_switch >= min_on_s
             THEN <<FALSE, t>>
             ELSE <<last_state, last_switch>>
        ELSE IF temp # None /\ temp <= setpoint - deadband /\ t - last_switch >= min_off_s
             THEN <<TRUE, t>>
             ELSE <<last_state, last_switch>>

\* the cold-weather test shared by the fan and the inlet caps
ColdAndClean(st, cfg) ==
    /\ st.temperature_c # None
    /\ st.temperature_c < cfg.temp_setpoint - cfg.cold_vent_delta_c
    /\ (st.co2_ppm = None \/ st.co2_ppm < cfg.co2_max)
    /\ (st.nh3_ppm = None \/ st.nh3_ppm < cfg.nh3_threshold)

\* FAN CONTROL: fan_level after the proportional law and its clamp, None when
\* the status carries neither temperature_c nor co2_ppm
FanControl(st, cfg) ==
    IF st.temperature_c # None \/ st.co2_ppm # None
    THEN LET temp_error == IF st.temperature_c # None
                           THEN Max(0, st.temperature_c - cfg.temp_setpoint) ELSE 0
             co2_error == IF st.co2_ppm # None
                          THEN Max(0, st.co2_ppm - cfg.co2_setpoint) ELSE 0
             fan_from_temp == (cfg.fan_kp_temp * temp_error) \div 1000
             fan_from_co2 == (cfg.fan_kp_co2 * co2_error) \div 1000
             boost == IF st.nh3_ppm # None /\ st.nh3_ppm > cfg.nh3_threshold
                      THEN 30000 ELSE 0
             f0 == fan_from_temp + fan_from_co2 + boost
             f1 == IF st.temperature_c = None /\ st.co2_ppm = None
                   THEN cfg.fan_max ELSE f0
         IN  Max(cfg.fan_min, Min(cfg.fan_max, f1))
    ELSE None

\* HEATER CONTROL: the level wanted for the latch state, before rate limiting
HeaterTarget(st, cfg, heater_on) ==
    IF heater_on
    THEN LET temp_deficit == Max(0, cfg.temp_setpoint - st.temperature_c)
             h == Min(100000, (cfg.heater_kp_temp * temp_deficit) \div 1000)
         IN  IF h < cfg.heater_min_level THEN cfg.heater_min_level ELSE h
    ELSE 0

\* a fan target without the lift to heater_min_fan
FanTargetNoCoupling(st, cfg, fan_level, heater_level) ==
    IF fan_level = None THEN None
    ELSE LET f1 == Max(fan_level, cfg.fan_min_vent_pct)
         IN  IF ColdAndClean(st, cfg) THEN Min(f1, cfg.fan_cold_max_pct) ELSE f1

\* the coupling corrections: the fan target handed to the rate limiter
FanTarget(st, cfg, fan_level, heater_level) ==
    IF fan_level = None THEN None
    ELSE LET f0 == IF heater_level # None /\ heater_level > 0
                   THEN Max(fan_level, cfg.heater_min_fan) ELSE fan_level
             f1 == Max(f0, cfg.fan_min_vent_pct)
         IN  IF ColdAndClean(st, cfg) THEN Min(f1, cfg.fan_cold_max_pct) ELSE f1

\* INLET: the opening wanted for the emitted fan level, before rate limiting
InletTarget(st, cfg, fan_level) ==
    IF fan_level = None THEN None
    ELSE LET i0 == 20000 + (6 * fan_level) \div 10
             i1 == IF st.co2_ppm # None /\ st.co2_ppm > cfg.co2_setpoint
                   THEN i0 + Min(20000, (st.co2_ppm - cfg.co2_setpoint) \div 50)
                   ELSE i0
             i2 == IF st.nh3_ppm # None /\ st.nh3_ppm > cfg.nh3_threshold
                   THEN i1 + Min(15000, ((st.nh3_ppm - cfg.nh3_threshold) * 15) \div 10)
                   ELSE i1
             i3 == Max(cfg.inlet_min_pct, Min(100000, i2))
         IN  IF ColdAndClean(st, cfg) THEN Min(i3, cfg.inlet_cold_max_pct) ELSE i3

\* LIGHT DIMMER: the level wanted, before rate limiting
LightTarget(st, cfg, t) ==
    LET time_of_day_h == ((t % 864000) * 1000) \div 36000
        night == ~(cfg.lights_on_h <= time_of_day_h /\ time_of_day_h < cfg.lights_off_h)
        min_light == IF night THEN cfg.light_min_night_pct ELSE cfg.light_min_day_pct
    IN  IF st.activity # None
        THEN LET activity_error == cfg.activity_min - st.activity
                 l0 == 60000 + 70 * activity_error
                 l1 == IF st.activity > cfg.light_activity_high THEN l0 - 20000 ELSE l0
             IN  Max(min_light, Min(100000, l1))
        ELSE min_light


\* Action(actuator, priority, command)
Action(actuator, priority, command) ==
    [actuator |-> actuator, priority |-> priority, command |-> command]

\* the actions left in the order they were appended
AppendOrder(actions) == actions

\* list.sort(key = priority): a stable insertion sort
RECURSIVE SortByPriority(_)
SortByPriority(actions) ==
    IF Len(actions) <= 1 THEN actions
    ELSE LET n == Len(actions)
             head == SortByPriority(SubSeq(actions, 1, n - 1))
             a == actions[n]
             before == SelectSeq(head, LAMBDA x : x.priority <= a.priority)
             after == SelectSeq(head, LAMBDA x : x.priority > a.priority)
         IN  before \o <<a>> \o after

\* the tail of _build_actions_from_status once the levels are known: the
\* actions in the order they are appended, then sorted, and the dicts as the
\* calls of _rate_limit, _hysteresis_state and _heater_on_state leave them
Assemble(st, p, t, hs, heater_level, fan_level, inlet_open, light_level, feed_refill_on, water_refill_on) ==
    LET farm_id == st.farm_id
        zone == st.zone
        hkey == HeaterKey(farm_id, zone)
        actions ==
            (IF fan_level # None
             THEN <<Action("fan", 1, [action |-> "SET", level |-> PyInt(fan_level)])>>
             ELSE <<>>)
            \o (IF heater_level # None
                THEN <<Action("heater", 1, [action |-> "SET", level_pct |-> PyInt(heater_level)])>>
                ELSE <<>>)
            \o <<Action("feed_dispenser", 3,
                        [action |-> IF feed_refill_on THEN "ON" ELSE "OFF"])>>
            \o <<Action("water_valve", 3,
                        [action |-> IF water_refill_on THEN "ON" ELSE "OFF"])>>
            \o (IF inlet_open # None
                THEN <<Action("inlet", 2, [action |-> "SET", open_pct |-> PyInt(inlet_open)])>>
                ELSE <<>>)
            \o <<Action("light", 4, [action |-> "SET", level_pct |-> PyInt(light_level)])>>
        level == [a \in {"heater", "fan", "inlet", "light"} |->
                    CASE a = "heater" -> heater_level
                      [] a = "fan" -> fan_level
                      [] a = "inlet" -> inlet_open
                      [] OTHER -> light_level]
        written == { <<farm_id, zone, a>> : a \in { x \in DOMAIN level : level[x] # None } }
        refill1 == IF st.feed_kg # None
                   THEN Put(p.REFILL_STATE, <<farm_id, zone, "feed">>, feed_refill_on)
                   ELSE p.REFILL_STATE
    IN  [ actions |-> SortByPriority(actions),
          HEATER_STATE |-> IF st.temperature_c # None
                           THEN Put(p.HEATER_STATE, hkey, hs[1])
                           ELSE p.HEATER_STATE,
          HEATER_SWITCH_TS |-> IF st.temperature_c # None
                               THEN Put(p.HEATER_SWITCH_TS, hkey, hs[2])
                               ELSE p.HEATER_SWITCH_TS,
          REFILL_STATE |-> IF st.water_l # None
                           THEN Put(refill1, <<farm_id, zone, "water">>, water_refill_on)
                           ELSE refill1,
          LAST_LEVELS |-> [k \in (DOMAIN p.LAST_LEVELS) \cup written |->
                              IF k \in written THEN level[k[3]] ELSE p.LAST_LEVELS[k]],
          LAST_TS |-> [k \in (DOMAIN p.LAST_TS) \cup written |->
                          IF k \in written THEN t ELSE p.LAST_TS[k]] ]

\* _build_actions_from_status(status, sys_config) run at time t on the
\* planner state p = [HEATER_STATE, HEATER_SWITCH_TS, REFILL_STATE,
\* LAST_LEVELS, LAST_TS]: the actions and the planner state it leaves.
\* Each stage receives the results of the earlier ones as arguments.
BuildActions(st, cfg, t, p) ==
    LET key(a) == <<st.farm_id, st.zone, a>>
        Light(hs, heater_level, fan_level, inlet_open) ==
            Assemble(st, p, t, hs, heater_level, fan_level, inlet_open,
                RateLimit(p.LAST_LEVELS, p.LAST_TS, key("light"),
                          LightTarget(st, cfg, t), cfg.light_rate_limit_per_min, t),
                HysteresisState(p.REFILL_STATE, key("feed"), st.feed_kg,
                                cfg.feed_refill_low_kg, cfg.feed_refill_high_kg),
                HysteresisState(p.REFILL_STATE, key("water"), st.water_l,
                                cfg.water_refill_low_l, cfg.water_refill_high_l))
        InletOf(inlet0) ==
            IF inlet0 # None
            THEN RateLimit(p.LAST_LEVELS, p.LAST_TS, key("inlet"), inlet0,
                           cfg.inlet_rate_limit_per_min, t)
            ELSE None
        Inlet(hs, heater_level, fan_level) ==
            Light(hs, heater_level, fan_level, InletOf(InletTarget(st, cfg, fan_level)))
        FanOf(fan1) ==
            IF fan1 # None
            THEN RateLimit(p.LAST_LEVELS, p.LAST_TS, key("fan"), fan1,
                           cfg.fan_rate_limit_per_min, t)
            ELSE None
        Fan(hs, heater_level) ==
            Inlet(hs, heater_level,
                  FanOf(FanTarget(st, cfg, FanControl(st, cfg), heater_level)))
        Heater(hs) ==
            Fan(hs, IF st.temperature_c # None
                    THEN RateLimit(p.LAST_LEVELS, p.LAST_TS, key("heater"),
                                   HeaterTarget(st, cfg, hs[1]),
                                   cfg.heater_rate_limit_per_min, t)
                    ELSE None)
    IN  Heater(IF st.temperature_c # None
               THEN HeaterOnState(p.HEATER_STATE, p.HEATER_SWITCH_TS,
                                  HeaterKey(st.farm_id, st.zone), st.temperature_c,
                                  cfg.temp_setpoint, cfg.heater_deadband_c,
                                  cfg.heater_min_on_s, cfg.heater_min_off_s, t)
               ELSE <<FALSE, t>>)

\* the command of the action of an actuator in a list of actions, or the
\* empty record when the list has none
CommandOf(actions, actuator) ==
    IF \E i \in 1..Len(actions) : actions[i].actuator = actuator
    THEN actions[CHOOSE i \in 1..Len(actions) : actions[i].actuator = actuator].command
    ELSE [x \in {} |-> 0]

HasAction(actions, actuator) ==
    \E i \in 1..Len(actions) : actions[i].actuator = actuator


-----------------------------------------------------------------------------
(* Part II : the planner's on_message                                      *)

F1 == <<"farm1">>

Z1 == <<"zone1">>

\* a decoded status payload of the zone
Status(temp, co2, nh3, feed, water, activity) ==
    [ farm_id |-> F1, zone |-> Z1, temperature_c |-> temp, co2_ppm |-> co2,
      nh3_ppm |-> nh3, feed_kg |-> feed, water_l |-> water, activity |-> activity ]

\* statuses that exercise the climate law: cold, inside the heater deadband,
\* at its upper edge, hot, and without temperature and / or CO2
ClimateStatuses ==
    { Status(T, 1800000, 12000, 2000, 12000, 400) :
        T \in {None, 18000, 25800, 26400, 30000} }
    \cup { Status(None, None, 12000, 2000, 12000, 400) }

\* statuses that exercise the refill latches
RefillStatuses ==
    { Status(25800, 1800000, 12000, f, w, 400) :
        f \in {None, 2000, 1400, 1000, 1800, 2600}, w \in {None, 4000, 12000} }

\* feed_kg of the statuses of the feed-refill scenario, in order
FeedScenario == <<2000, 1400, 1000, 1800, 2600>>

\* configurations of the zone: the default, one without a dwell before the
\* heater may switch on, one with a cold-weather fan cap below heater_min_fan
Configs ==
    { DefaultConfig,
      [DefaultConfig EXCEPT !.heater_min_off_s = 0],
      [DefaultConfig EXCEPT !.fan_cold_max_pct = 15000] }

\* time between two statuses, tenths of a second
Gaps == {0, 50, 300}

\* time between two statuses of the refill scenarios
RefillGaps == {50}

\* local time of day at which the planner starts, tenths of a second
StartClock == 790000

MaxStatuses == 4

MaxRefillStatuses == 5

PlanInit ==
    /\ sys_config \in Configs
    /\ now = StartClock
    /\ HEATER_STATE = EmptyDict
    /\ HEATER_SWITCH_TS = EmptyDict
    /\ REFILL_STATE = EmptyDict
    /\ LAST_LEVELS = EmptyDict
    /\ LAST_TS = EmptyDict
    /\ status = Status(None, None, None, None, None, None)
    /\ plan = <<>>
    /\ emitted = EmptyDict
    /\ heater_flip_ts = 0 - 1
    /\ scenario_pos = 0
    /\ handled = 0

\* the planner before any status, with one fixed configuration
PlanIdle ==
    /\ PlanInit
    /\ sys_config = DefaultConfig

\* the simulator of a zone that has not started
SimIdle ==
    /\ SimInit
    /\ state.temperature_c = 23000
    /\ SIM_STEP_S = 5

\* the continuous actuators of a plan with the level each carries
Levels(actions) ==
    { <<"fan", Get(CommandOf(actions, "fan"), "level", None)>>,
      <<"heater", Get(CommandOf(actions, "heater"), "level_pct", None)>>,
      <<"inlet", Get(CommandOf(actions, "inlet"), "open_pct", None)>>,
      <<"light", Get(CommandOf(actions, "light"), "level_pct", None)>> }

\* on_message: a status st arrives gap after the previous one; the plan is
\* built and published
HandleStatus(st, gap, max) ==
    /\ handled < max
    /\ \E r \in { BuildActions(st, sys_config, now + gap,
                    [ HEATER_STATE |-> HEATER_STATE,
                      HEATER_SWITCH_TS |-> HEATER_SWITCH_TS,
                      REFILL_STATE |-> REFILL_STATE,
                      LAST_LEVELS |-> LAST_LEVELS,
                      LAST_TS |-> LAST_TS ]) } :
         \E carried \in { { x \in Levels(r.actions) : x[2] # None } } :
           /\ now' = now + gap
           /\ status' = st
           /\ plan' = r.actions
           /\ HEATER_STATE' = r.HEATER_STATE
           /\ HEATER_SWITCH_TS' = r.HEATER_SWITCH_TS
           /\ REFILL_STATE' = r.REFILL_STATE
           /\ LAST_LEVELS' = r.LAST_LEVELS
           /\ LAST_TS' = r.LAST_TS
           /\ emitted' = [a \in (DOMAIN emitted) \cup { x[1] : x \in carried } |->
                             IF \E x \in carried : x[1] = a
                             THEN [level |-> (CHOOSE x \in carried : x[1] = a)[2],
                                   ts |-> now + gap]
                             ELSE emitted[a]]
           /\ heater_flip_ts' =
                  IF Get(r.HEATER_STATE, HeaterKey(st.farm_id, st.zone), FALSE)
                       # Get(HEATER_STATE, HeaterKey(st.farm_id, st.zone), FALSE)
                  THEN now + gap ELSE heater_flip_ts
           /\ scenario_pos' = IF /\ scenario_pos = handled
                                 /\ handled < Len(FeedScenario)
                                 /\ st.feed_kg = FeedScenario[handled + 1]
                              THEN handled + 1 ELSE 0 - 1
           /\ handled' = handled + 1
           /\ UNCHANGED sys_config

OnStatus == \E st \in ClimateStatuses, gap \in Gaps : HandleStatus(st, gap, MaxStatuses)

OnRefillStatus ==
    \E st \in RefillStatuses, gap \in RefillGaps : HandleStatus(st, gap, MaxRefillStatuses)

-----------------------------------------------------------------------------
(* Part III : the message bus between planner and executor                 *)
(* A topic is a sequence of tokens in which "/" separates the levels; an   *)
(* identifier is a sequence of tokens.  The text of a JSON object is the   *)
(* sequence of its <<key, value>> members; a payload is a record with the  *)
(* flag json (FALSE: text json.loads rejects) and the text.                *)

\* f"{a}/{b}/{c}"
Join3(a, b, c) == a \o <<"/">> \o b \o <<"/">> \o c

\* f"{a}/{b}/{c}/{d}"
Join4(a, b, c, d) == a \o <<"/">> \o b \o <<"/">> \o c \o <<"/">> \o d

\* str.split("/")
RECURSIVE Split(_)
Split(s) ==
    IF \A i \in 1..Len(s) : s[i] # "/" THEN <<s>>
    ELSE LET i == CHOOSE k \in 1..Len(s) :
                      s[k] = "/" /\ \A j \in 1..(k - 1) : s[j] # "/"
         IN  <<SubSeq(s, 1, i - 1)>> \o Split(SubSeq(s, i + 1, Len(s)))

\* a JSON member that is left out of the object
Missing == 0 - 999999998

\* json.dumps of a dict whose keys were inserted in the order keys; a key
\* the dict does not hold has no member
JsonDumps(d, keys) ==
    LET present == SelectSeq(keys, LAMBDA k : k \in DOMAIN d)
    IN  [i \in 1..Len(present) |-> <<present[i], d[present[i]]>>]

\* json.loads of the text of an object: the last member of a key wins
JsonLoads(text) ==
    [k \in {text[i][1] : i \in 1..Len(text)} |->
        text[CHOOSE i \in 1..Len(text) :
                 text[i][1] = k /\ \A j \in (i + 1)..Len(text) : text[j][1] # k][2]]

\* the keys of the command dicts, in the order the planner inserts them
CommandKeys == <<"action", "level", "level_pct", "open_pct", "on", "amount_g", "duration_s">>

\* the keys of a status payload, in the order the analyzer inserts them
StatusKeys == <<"farm_id", "zone", "temperature_c", "co2_ppm", "nh3_ppm",
                "feed_kg", "water_l", "activity">>

\* the status the planner reads from a decoded payload d: status.get(key),
\* and status.get("farm_id", "unknown"), status.get("zone", "unknown")
StatusOf(d) ==
    [ farm_id |-> Get(d, "farm_id", <<"unknown">>),
      zone |-> Get(d, "zone", <<"unknown">>),
      temperature_c |-> Get(d, "temperature_c", None),
      co2_ppm |-> Get(d, "co2_ppm", None),
      nh3_ppm |-> Get(d, "nh3_ppm", None),
      feed_kg |-> Get(d, "feed_kg", None),
      water_l |-> Get(d, "water_l", None),
      activity |-> Get(d, "activity", None) ]

\* the text of the plan payload: farm_id, zone and the actions, each with
\* its command serialized
PlanPayload(farm_id, zone, actions) ==
    [ json |-> TRUE,
      text |-> << <<"farm_id", farm_id>>, <<"zone", zone>>,
                  <<"actions",
                    [i \in 1..Len(actions) |->
                        << <<"actuator", actions[i].actuator>>,
                           <<"priority", actions[i].priority>>,
                           <<"command", JsonDumps(actions[i].command, CommandKeys)>> >>]>> >> ]

\* what the planner's on_message publishes for the message m once the
\* actions are built
PlannerPublishes(m, actions) ==
    LET parts == Split(m.topic)
    IN  IF Len(actions) = 0 THEN <<>>
        ELSE << [ topic |-> Join3(parts[1], parts[2], <<"plan">>),
                  payload |-> PlanPayload(parts[1], parts[2], actions) ] >>

\* an on_message that also drops a status without temperature_c
PlannerIgnoresIncomplete(m) ==
    \/ ~m.payload.json
    \/ Len(Split(m.topic)) # 3
    \/ Split(m.topic)[2] = <<>>
    \/ "temperature_c" \notin DOMAIN JsonLoads(m.payload.text)

\* the planner's on_message rejects m before building actions: the payload
\* is not JSON, the topic has not three levels, or the zone level is empty
PlannerIgnores(m) ==
    \/ ~m.payload.json
    \/ Len(Split(m.topic)) # 3
    \/ Split(m.topic)[2] = <<>>

\* a status message of the analyzer: a member is left out when its value is
\* Missing, and null when it is None
StatusMessage(farm, zone, farm_id, zone_id, temp, co2, nh3, feed, water, activity) ==
    LET d == [ farm_id |-> farm_id, zone |-> zone_id, temperature_c |-> temp,
               co2_ppm |-> co2, nh3_ppm |-> nh3, feed_kg |-> feed,
               water_l |-> water, activity |-> activity ]
        keys == <<"farm_id", "zone">>
                \o SelectSeq(SubSeq(StatusKeys, 3, Len(StatusKeys)),
                             LAMBDA k : d[k] # Missing)
    IN  [ topic |-> Join3(farm, zone, <<"status">>),
          payload |-> [json |-> TRUE, text |-> JsonDumps(d, keys)] ]

F2 == <<"farm2">>

Z2 == <<"zone2">>

\* status messages with every subset of the sensor fields left out or null,
\* on the topic of the zone the payload names and on another zone's topic
SubsetStatusMessages ==
    { StatusMessage(tz[1], tz[2], F1, Z1, temp, co2, nh3, feed, water, activity) :
        tz \in {<<F1, Z1>>, <<F2, Z2>>},
        temp \in {Missing, 18000}, co2 \in {None, 1800000},
        nh3 \in {Missing, 12000}, feed \in {None, 1400},
        water \in {Missing, 4000}, activity \in {None, 400} }

\* messages the planner's on_message drops: not JSON, or an empty zone level
DroppedStatusMessages ==
    { [ topic |-> Join3(F1, Z1, <<"status">>), payload |-> [json |-> FALSE, text |-> <<>>] ],
      StatusMessage(F1, <<>>, F1, Z1, 18000, 1800000, 12000, 1400, 4000, 400) }

\* the few status messages that feed the executor with plans
FewStatusMessages ==
    { StatusMessage(F1, Z1, F1, Z1, 18000, 1800000, 12000, 1400, 4000, 400),
      StatusMessage(F2, Z2, F2, Z2, 30000, 1800000, 30000, 2600, 12000, Missing),
      StatusMessage(F1, Z1, F1, Z1, Missing, None, 12000, None, Missing, 400) }

MaxBusStatuses == 1

MaxFewStatuses == 2

\* no message yet
NoMessage == [ topic |-> <<>>, payload |-> [json |-> FALSE, text |-> <<>>] ]

\* the bus before any message; the executor is up, and the messages of its
\* startup are not kept
BusIdle ==
    /\ planner_in = NoMessage
    /\ planner_out = <<>>
    /\ executor_in = NoMessage
    /\ executor_out = <<>>
    /\ actuator_log = <<>>
    /\ executor_pc = "up"
    /\ startup_out = <<>>

\* the planner's on_message for the message m, gap after the previous one
PlannerOnMessage(m, gap, max) ==
    /\ planner_in' = m
    /\ UNCHANGED <<executor_in, executor_out, actuator_log, executor_pc, startup_out>>
    /\ IF PlannerIgnores(m)
       THEN /\ handled < max
            /\ handled' = handled + 1
            /\ now' = now + gap
            /\ scenario_pos' = 0 - 1
            /\ planner_out' = <<>>
            /\ UNCHANGED <<sys_config, HEATER_STATE, HEATER_SWITCH_TS, REFILL_STATE,
                           LAST_LEVELS, LAST_TS, status, plan, emitted, heater_flip_ts>>
       ELSE /\ HandleStatus(StatusOf(JsonLoads(m.payload.text)), gap, max)
            /\ planner_out' = PlannerPublishes(m, plan')

PlannerReceives ==
    \E m \in SubsetStatusMessages \cup DroppedStatusMessages :
        PlannerOnMessage(m, 50, MaxBusStatuses)

\* status messages of two zones: on the zone's own topic, and on the topic of
\* farm2 / zone2 with a payload that names farm1 / zone1
ZoneStatusMessages ==
    { StatusMessage(tp[1], tp[2], tp[3], tp[4], temp, 1800000, 12000, feed, 12000, 400) :
        tp \in { <<F1, Z1, F1, Z1>>, <<F2, Z2, F2, Z2>>, <<F2, Z2, F1, Z1>> },
        temp \in {18000, 25800, 30000}, feed \in {1000, 1400} }

MaxZoneStatuses == 3

PlannerReceivesZones ==
    \E m \in ZoneStatusMessages : PlannerOnMessage(m, 50, MaxZoneStatuses)

PlannerReceivesFew ==
    \E m \in FewStatusMessages : PlannerOnMessage(m, 50, MaxFewStatuses)

\* the keys of the text of an object, in the order json.loads inserts them
KeysOf(text) ==
    LET first == SelectSeq([i \in 1..Len(text) |-> i],
                           LAMBDA i : \A j \in 1..(i - 1) : text[j][1] # text[i][1])
    IN  [i \in 1..Len(first) |-> text[first[i]][1]]

\* json.dumps of the dict that json.loads made of text
Reserialize(text) == JsonDumps(JsonLoads(text), KeysOf(text))

\* action.get("actuator"): "" stands for a missing or empty actuator
ActuatorOf(action_text) == Get(JsonLoads(action_text), "actuator", "")

\* action.get("command", {}) as text
CommandTextOf(action_text) == Get(JsonLoads(action_text), "command", <<>>)

\* state_str and numeric_fields the executor logs for a command; levels are
\* whole percents
LogFields(actuator, command) ==
    LET action_str == Get(command, "action", "")
        level == Get(command, "level", 0)
        level_pct == Get(command, "level_pct", 0)
        open_pct == Get(command, "open_pct", 0)
        on == IF "on" \in DOMAIN command THEN command["on"] ELSE action_str = "ON"
    IN  CASE actuator = "fan" ->
               [ state_str |-> <<"SET", level>>,
                 numeric |-> [level |-> level, on |-> IF level > 0 THEN 1 ELSE 0] ]
          [] actuator = "heater" ->
               IF "level_pct" \in DOMAIN command
               THEN [ state_str |-> <<"SET", level_pct>>,
                      numeric |-> [level_pct |-> level_pct,
                                   on |-> IF level_pct > 0 THEN 1 ELSE 0] ]
               ELSE IF action_str = "ON"
               THEN [ state_str |-> <<"SET", 100>>, numeric |-> [level_pct |-> 100, on |-> 1] ]
               ELSE [ state_str |-> <<"SET", 0>>, numeric |-> [level_pct |-> 0, on |-> 0] ]
          [] actuator = "inlet" ->
               [ state_str |-> <<"OPEN", open_pct>>,
                 numeric |-> [open_pct |-> open_pct, on |-> IF open_pct > 10 THEN 1 ELSE 0] ]
          [] actuator \in {"feed_dispenser", "water_valve"} ->
               IF action_str \in {"ON", "OFF"} \/ "on" \in DOMAIN command
               THEN [ state_str |-> <<IF on THEN "ON" ELSE "OFF", 0>>,
                      numeric |-> [on |-> IF on THEN 1 ELSE 0] ]
               ELSE LET q == IF actuator = "feed_dispenser"
                             THEN Get(command, "amount_g", 0)
                             ELSE Get(command, "duration_s", 0)
                    IN  [ state_str |-> <<IF actuator = "feed_dispenser"
                                          THEN "DISPENSE" ELSE "OPEN", q>>,
                          numeric |-> [quantity |-> q, on |-> IF q > 0 THEN 1 ELSE 0] ]
          [] actuator = "light" ->
               [ state_str |-> <<"SET", level_pct>>,
                 numeric |-> [level_pct |-> level_pct, on |-> IF level_pct > 0 THEN 1 ELSE 0] ]
          [] OTHER -> [ state_str |-> <<"", 0>>, numeric |-> [on |-> 0] ]

\* the command message of one action of a plan for farm_id / zone
CommandMessage(farm_id, zone, action_text) ==
    [ topic |-> Join4(farm_id, zone, <<"cmd">>, <<ActuatorOf(action_text)>>),
      payload |-> [json |-> TRUE, text |-> Reserialize(CommandTextOf(action_text))] ]

\* the log_actuator_command entry of one action
LogEntry(farm_id, zone, action_text) ==
    [ farm |-> farm_id, zone |-> zone, actuator |-> ActuatorOf(action_text),
      fields |-> LogFields(ActuatorOf(action_text), JsonLoads(CommandTextOf(action_text))),
      payload |-> Reserialize(CommandTextOf(action_text)) ]

\* the executor's loop over the actions of a plan; the Knowledge write of
\* action number fail raises (0: none does)
ExecuteActions(farm_id, zone, actions, fail) ==
    LET raises == fail \in 1..Len(actions) /\ ActuatorOf(actions[fail]) # ""
        last == IF raises THEN fail ELSE Len(actions)
        todo == SelectSeq([i \in 1..last |-> i],
                          LAMBDA i : ActuatorOf(actions[i]) # "")
        logged == SelectSeq(todo, LAMBDA i : ~(raises /\ i = fail))
    IN  [ out |-> [j \in 1..Len(todo) |-> CommandMessage(farm_id, zone, actions[todo[j]])],
          log |-> [j \in 1..Len(logged) |-> LogEntry(farm_id, zone, actions[logged[j]])] ]

\* the zone of the commands: the executor reads it from the payload
PlanZone(m, plan_dict) == Get(plan_dict, "zone", <<>>)

\* the farm of the commands: the first level of a three-level topic, else
\* the payload's farm_id
PlanFarm(m, plan_dict) ==
    IF Len(Split(m.topic)) = 3 THEN Split(m.topic)[1]
    ELSE Get(plan_dict, "farm_id", <<>>)

\* the executor's on_message for the plan message m
ExecutorOnMessage(m, fail) ==
    IF ~m.payload.json THEN [out |-> <<>>, log |-> <<>>]
    ELSE LET plan_dict == JsonLoads(m.payload.text)
             farm_id == PlanFarm(m, plan_dict)
             zone == PlanZone(m, plan_dict)
         IN  IF zone = <<>> \/ farm_id = <<>> THEN [out |-> <<>>, log |-> <<>>]
             ELSE ExecuteActions(farm_id, zone, Get(plan_dict, "actions", <<>>), fail)

\* a plan message with one fan action, on the topic of farm / zone
FanPlan(farm, zone, members) ==
    [ topic |-> Join3(farm, zone, <<"plan">>),
      payload |-> [ json |-> TRUE,
                    text |-> members \o
                        << <<"actions",
                             << << <<"actuator", "fan">>, <<"priority", 1>>,
                                   <<"command", << <<"action", "SET">>, <<"level", 40>> >> >> >>,
                                << <<"priority", 3>>,
                                   <<"command", << <<"action", "OFF">> >> >> >> >> >> >> ] ]

\* plan messages of other publishers: a payload zone that differs from the
\* topic, no zone in the payload, an action without actuator, text that is
\* not JSON
OtherPlanMessages ==
    { FanPlan(F1, Z1, << <<"farm_id", F1>>, <<"zone", Z2>> >>),
      FanPlan(F1, Z1, << <<"farm_id", F1>> >>),
      FanPlan(F2, Z2, << <<"farm_id", F2>>, <<"zone", Z2>> >>),
      [ topic |-> Join3(F1, Z1, <<"plan">>), payload |-> [json |-> FALSE, text |-> <<>>] ] }

\* a plan never has more actions
MaxActions == 6

\* the executor receives a plan message: one the planner has just
\* published, or another publisher's
ExecutorReceives ==
    \E m \in {planner_out[i] : i \in 1..Len(planner_out)} \cup OtherPlanMessages,
       fail \in 0..MaxActions :
        \E r \in { ExecutorOnMessage(m, fail) } :
            /\ executor_pc = "up"
            /\ executor_in' = m
            /\ executor_out' = r.out
            /\ actuator_log' = r.log
            /\ UNCHANGED <<planner_in, planner_out, executor_pc, startup_out>>

-----------------------------------------------------------------------------
(* Part IV : the topology file, the monitor, Knowledge and the analyzer    *)

\* common/config.py: FARM_ID and ZONE_ID
FARM_ID == F1

ZONE_ID == Z1

\* a zone entry of the topology document: a bare string, or an object with
\* an id
BareZone(id) == [kind |-> "str", id |-> id]

ObjectZone(id) == [kind |-> "obj", id |-> id]

\* system_config.json holding a document with these farms
TopologyFile(farms) == [exists |-> TRUE, ok |-> TRUE, farms |-> farms]

\* system_config.json holding text that is not JSON
UnparseableFile == [exists |-> TRUE, ok |-> FALSE, farms |-> <<>>]

\* system_config.json does not exist
AbsentFile == [exists |-> FALSE, ok |-> FALSE, farms |-> <<>>]

\* load_system_config: the document of the file, or the one-zone default
\* when the file cannot be opened or parsed
LoadSystemConfig(file) ==
    IF file.exists /\ file.ok THEN [farms |-> file.farms]
    ELSE [farms |-> << [id |-> FARM_ID, zones |-> <<BareZone(ZONE_ID)>>] >>]

\* the contents system_config.json takes: the default topology, two zones
\* with a farm-level config, a zone listed twice, a second farm whose zone is
\* given as an object, no zone, text that is not JSON, and no file
TopologyFiles ==
    { TopologyFile(<< [id |-> F1, zones |-> <<BareZone(Z1)>>] >>),
      TopologyFile(<< [id |-> F1, zones |-> <<BareZone(Z1), BareZone(Z2)>>,
                       config |-> [temperature_c |-> 26000]] >>),
      TopologyFile(<< [id |-> F1, zones |-> <<BareZone(Z2), BareZone(Z2)>>] >>),
      TopologyFile(<< [id |-> F2, zones |-> <<ObjectZone(Z2)>>] >>),
      TopologyFile(<< [id |-> F1, zones |-> <<>>] >>),
      UnparseableFile,
      AbsentFile }

\* the (farm, zone) pairs of a document, in the order of the document; a
\* zone object is named by its id
RECURSIVE ZonePairs(_)
ZonePairs(farms) ==
    IF Len(farms) = 0 THEN <<>>
    ELSE [i \in 1..Len(farms[1].zones) |-> <<farms[1].id, farms[1].zones[i].id>>]
         \o ZonePairs(Tail(farms))

\* the sensor values a zone publishes
SensorValues ==
    [ temperature_c |-> 25100, co2_ppm |-> 1510000, nh3_ppm |-> 12500,
      feed_kg |-> 19990, water_l |-> 14990, activity |-> 410 ]

\* a sensor message of a zone for one group with the given members
SensorMessage(farm, zone, group, keys) ==
    [ topic |-> Join4(farm, zone, <<"sensors">>, <<group>>),
      payload |-> [json |-> TRUE, text |-> JsonDumps(SensorValues, keys)] ]

\* _publish_sensors: the four messages of a zone
PublishSensors(farm, zone) ==
    << SensorMessage(farm, zone, "air", <<"temperature_c", "co2_ppm", "nh3_ppm">>),
       SensorMessage(farm, zone, "feed_level", <<"feed_kg">>),
       SensorMessage(farm, zone, "water_level", <<"water_l">>),
       SensorMessage(farm, zone, "activity", <<"activity">>) >>

\* the sensor messages on the bus: those of three zones of two farms, one of
\* an unknown group and one that is not JSON
SensorMessages ==
    UNION { {PublishSensors(fz[1], fz[2])[i] : i \in 1..4} :
                fz \in {<<F1, Z1>>, <<F1, Z2>>, <<F2, Z2>>} }
    \cup { SensorMessage(F1, Z1, "light", <<"activity">>),
           [ topic |-> Join4(F1, Z1, <<"sensors">>, <<"air">>),
             payload |-> [json |-> FALSE, text |-> <<>>] ] }

\* the monitor's subscription f"{FARM_ID}/+/sensors/+"
MonitorSubscribed(topic) ==
    LET parts == Split(topic)
    IN  Len(parts) = 4 /\ parts[1] = FARM_ID /\ parts[3] = <<"sensors">>

\* the fields the monitor reads for a sensor group and the type tag of each
FieldsOfGroup(sensor_type) ==
    CASE sensor_type = <<"air">> ->
            << <<"temperature_c", "temperature">>, <<"co2_ppm", "co2">>,
               <<"nh3_ppm", "ammonia">> >>
      [] sensor_type = <<"feed_level">> -> << <<"feed_kg", "feed_level">> >>
      [] sensor_type = <<"water_level">> -> << <<"water_l", "water_level">> >>
      [] sensor_type = <<"activity">> -> << <<"activity", "activity">> >>
      [] OTHER -> <<>>

\* the points the monitor's on_message writes for the message m
MonitorPoints(m) ==
    IF ~m.payload.json \/ Len(Split(m.topic)) # 4 THEN <<>>
    ELSE LET data == JsonLoads(m.payload.text)
             zone == Split(m.topic)[2]
             fields == SelectSeq(FieldsOfGroup(Split(m.topic)[4]),
                                 LAMBDA f : Get(data, f[1], None) # None)
         IN  [i \in 1..Len(fields) |->
                 [ tags |-> [zone |-> zone, type |-> fields[i][2]],
                   value |-> data[fields[i][1]] ]]

\* write_api.write(record = points): each point becomes the latest of its
\* series
RECURSIVE WritePoints(_, _)
WritePoints(series, points) ==
    IF Len(points) = 0 THEN series
    ELSE WritePoints(Put(series, points[1].tags, points[1].value), Tail(points))

\* KnowledgeStore.get_latest_sensor_value(zone, sensor_type, farm_id): the
\* filters on the farm, zone and type tags
GetLatestSensorValue(series, zone, sensor_type, farm_id) ==
    LET hits == { tags \in DOMAIN series :
                    /\ DOMAIN tags = {"farm", "zone", "type"}
                    /\ tags.farm = farm_id
                    /\ tags.zone = zone
                    /\ tags.type = sensor_type }
    IN  IF hits = {} THEN None ELSE series[CHOOSE tags \in hits : TRUE]

\* common/config.py: the thresholds of the analyzer
TEMP_MIN == 24000

TEMP_MAX == 28000

CO2_MAX == 3000000

NH3_THRESHOLD == 25000

FEED_THRESHOLD == 1500

WATER_THRESHOLD == 800

ACTIVITY_MIN == 300

\* the alert of a reading without the phrase of a missing value
AlertOfPresent(value, missing, low, high, is_low, is_high) ==
    IF is_low THEN <<low>>
    ELSE IF is_high THEN <<high>>
    ELSE <<>>

\* the alert the analyzer raises for one reading
AlertOf(value, missing, low, high, is_low, is_high) ==
    IF value = None THEN <<missing>>
    ELSE IF is_low THEN <<low>>
    ELSE IF is_high THEN <<high>>
    ELSE <<>>

\* build_status
BuildStatus(series, farm_id, zone) ==
    LET temp == GetLatestSensorValue(series, zone, "temperature", farm_id)
        co2 == GetLatestSensorValue(series, zone, "co2", farm_id)
        nh3 == GetLatestSensorValue(series, zone, "ammonia", farm_id)
        feed == GetLatestSensorValue(series, zone, "feed_level", farm_id)
        water == GetLatestSensorValue(series, zone, "water_level", farm_id)
        activity == GetLatestSensorValue(series, zone, "activity", farm_id)
        co2_ok == co2 # None /\ co2 <= CO2_MAX
        nh3_ok == nh3 # None /\ nh3 <= NH3_THRESHOLD
        feed_ok == feed # None /\ feed >= FEED_THRESHOLD
        water_ok == water # None /\ water >= WATER_THRESHOLD
        activity_ok == activity # None /\ activity >= ACTIVITY_MIN
        alerts ==
            AlertOf(temp, "No temperature", "Too cold", "Too hot",
                    temp < TEMP_MIN, temp > TEMP_MAX)
            \o AlertOf(co2, "No CO2", "High CO2", "High CO2", ~co2_ok, FALSE)
            \o AlertOf(nh3, "No NH3", "High NH3", "High NH3", ~nh3_ok, FALSE)
            \o AlertOf(feed, "No feed data", "Low feed", "Low feed", ~feed_ok, FALSE)
            \o AlertOf(water, "No water data", "Low water", "Low water", ~water_ok, FALSE)
            \o AlertOf(activity, "No activity", "Low activity", "Low activity",
                       ~activity_ok, FALSE)
    IN  [ farm_id |-> farm_id, zone |-> zone, temperature_c |-> temp,
          co2_ppm |-> co2, nh3_ppm |-> nh3, feed_kg |-> feed, water_l |-> water,
          activity |-> activity,
          temp_ok |-> temp # None /\ TEMP_MIN <= temp /\ temp <= TEMP_MAX,
          co2_ok |-> co2_ok, nh3_ok |-> nh3_ok, feed_ok |-> feed_ok,
          water_ok |-> water_ok, activity_ok |-> activity_ok,
          alert |-> IF alerts = <<>> THEN <<"OK">> ELSE alerts ]

\* the keys of the analyzer's status dict, in insertion order
AnalyzerStatusKeys ==
    StatusKeys \o <<"temp_ok", "co2_ok", "nh3_ok", "feed_ok", "water_ok",
                    "activity_ok", "alert">>

\* the symptoms the analyzer logs for a status
SymptomsOf(st) ==
    [ farm |-> st.farm_id, zone |-> st.zone,
      fields |-> [ temp_ok |-> st.temp_ok, co2_ok |-> st.co2_ok, nh3_ok |-> st.nh3_ok,
                   feed_ok |-> st.feed_ok, water_ok |-> st.water_ok,
                   activity_ok |-> st.activity_ok, alert |-> st.alert ] ]

\* the status message of a zone
AnalyzerMessage(st) ==
    [ topic |-> Join3(st.farm_id, st.zone, <<"status">>),
      payload |-> [json |-> TRUE, text |-> JsonDumps(st, AnalyzerStatusKeys)] ]

\* the places of the try block of a zone's turn where an exception can be
\* raised: build_status (reading and computing), log_symptom, publish
Stages == {"none", "build", "log", "publish"}

\* a pass that an exception ends: the zones after the first raising one
\* are not visited
AnalyzeZonesAborting(series, pairs, failing) ==
    LET ok == [i \in 1..Len(pairs) |-> \A j \in 1..i : failing[j] = "none"]
        done == SelectSeq([i \in 1..Len(pairs) |-> i], LAMBDA i : ok[i])
        st(i) == BuildStatus(series, pairs[i][1], pairs[i][2])
    IN  [ symptoms |-> [i \in 1..Len(done) |-> SymptomsOf(st(done[i]))],
          published |-> [i \in 1..Len(done) |-> AnalyzerMessage(st(done[i]))] ]

\* one pass of the analyzer over the zones in pairs; failing gives, for
\* each zone's turn, the place where an exception is raised: the except
\* clause ends the zone's turn, and the loop goes on to the next zone
AnalyzeZones(series, pairs, failing) ==
    LET logged == SelectSeq([i \in 1..Len(pairs) |-> i],
                            LAMBDA i : failing[i] \in {"none", "publish"})
        done == SelectSeq([i \in 1..Len(pairs) |-> i], LAMBDA i : failing[i] = "none")
        st(i) == BuildStatus(series, pairs[i][1], pairs[i][2])
    IN  [ symptoms |-> [i \in 1..Len(logged) |-> SymptomsOf(st(logged[i]))],
          published |-> [i \in 1..Len(done) |-> AnalyzerMessage(st(done[i]))] ]

MaxSensorMessages == 2

\* the empty config the analyzer holds before its first cycle
NoConfig == [farms |-> <<>>, loaded |-> FALSE]

KnowInit ==
    /\ sensor_msg = NoMessage
    /\ sensor_count = 0
    /\ sensor_points = EmptyDict
    /\ analyzer_config = NoConfig
    /\ analyzer_errors = <<>>
    /\ symptom_points = <<>>
    /\ status_out = <<>>

\* a zone publishes a sensor message; the monitor, if subscribed to its
\* topic, writes its points
SensorPublished ==
    \E m \in SensorMessages :
        /\ sensor_count < MaxSensorMessages
        /\ sensor_count' = sensor_count + 1
        /\ sensor_msg' = m
        /\ sensor_points' = IF MonitorSubscribed(m.topic)
                            THEN WritePoints(sensor_points, MonitorPoints(m))
                            ELSE sensor_points
        /\ UNCHANGED <<analyzer_config, analyzer_errors, symptom_points, status_out>>

\* one cycle of the analyzer's loop
AnalyzerCycle ==
    \E cfg \in { LoadSystemConfig(topology_file) } :
      \E failing \in [1..Len(ZonePairs(cfg.farms)) -> Stages] :
        \E r \in { AnalyzeZones(sensor_points, ZonePairs(cfg.farms), failing) } :
            /\ analyzer_config' = [farms |-> cfg.farms, loaded |-> TRUE]
            /\ analyzer_errors' = failing
            /\ symptom_points' = r.symptoms
            /\ status_out' = r.published
            /\ UNCHANGED <<sensor_msg, sensor_count, sensor_points>>

\* the sensor types of Knowledge with the member, the flag and the phrase of
\* the status that belong to each
SensorTypes ==
    { [type |-> "temperature", key |-> "temperature_c", flag |-> "temp_ok",
       phrase |-> "No temperature"],
      [type |-> "co2", key |-> "co2_ppm", flag |-> "co2_ok", phrase |-> "No CO2"],
      [type |-> "ammonia", key |-> "nh3_ppm", flag |-> "nh3_ok", phrase |-> "No NH3"],
      [type |-> "feed_level", key |-> "feed_kg", flag |-> "feed_ok",
       phrase |-> "No feed data"],
      [type |-> "water_level", key |-> "water_l", flag |-> "water_ok",
       phrase |-> "No water data"],
      [type |-> "activity", key |-> "activity", flag |-> "activity_ok",
       phrase |-> "No activity"] }

\* the values a sensor type takes in Knowledge: none in the window, one
\* within its threshold, one beyond it
ValuesOfType(type) ==
    CASE type = "temperature" -> {None, 25000, 30000}
      [] type = "co2" -> {None, 1500000, 3500000}
      [] type = "ammonia" -> {None, 12000, 30000}
      [] type = "feed_level" -> {None, 5000, 1000}
      [] type = "water_level" -> {None, 4000, 500}
      [] type = "activity" -> {None, 400, 100}

\* KnowledgeStore.log_sensor: the series of the sensors measurement of a
\* zone, tagged with farm, zone and type, for the latest values in latest
LoggedSensors(farm_id, zone, latest) ==
    [ tags \in { [farm |-> farm_id, zone |-> zone, type |-> type] :
                    type \in { ty \in DOMAIN latest : latest[ty] # None } } |->
        latest[tags.type] ]

\* Knowledge holding, for farm1/zone1, any choice of values of the six types
StatusInit ==
    /\ sensor_msg = NoMessage
    /\ sensor_count = 0
    /\ \E temp \in ValuesOfType("temperature"), co2 \in ValuesOfType("co2"),
          nh3 \in ValuesOfType("ammonia"), feed \in ValuesOfType("feed_level"),
          water \in ValuesOfType("water_level"), act \in ValuesOfType("activity") :
          sensor_points =
              LoggedSensors(F1, Z1, [ temperature |-> temp, co2 |-> co2, ammonia |-> nh3,
                                      feed_level |-> feed, water_level |-> water,
                                      activity |-> act ])
    /\ analyzer_config = NoConfig
    /\ analyzer_errors = <<>>
    /\ symptom_points = <<>>
    /\ status_out = <<>>

\* system_config.json before anybody edits it
FileInit ==
    /\ topology_file \in TopologyFiles
    /\ file_mtime = 1

FileIdle ==
    /\ topology_file = TopologyFile(<< [id |-> F1, zones |-> <<BareZone(Z1)>>] >>)
    /\ file_mtime = 1

KnowIdle == KnowInit

-----------------------------------------------------------------------------
(* Part V : the supervisor of the per-zone simulator workers               *)

MaxEdits == 2

\* somebody rewrites, or deletes, system_config.json
EditTopology ==
    \E f \in TopologyFiles :
        /\ file_mtime <= MaxEdits
        /\ f # topology_file
        /\ topology_file' = f
        /\ file_mtime' = file_mtime + 1

\* the elements of a sequence as a set
RangeOf(seq) == { seq[i] : i \in 1..Len(seq) }

\* a sequence without the later copies of its elements
RECURSIVE Dedup(_)
Dedup(seq) ==
    IF Len(seq) = 0 THEN <<>>
    ELSE LET front == Dedup(SubSeq(seq, 1, Len(seq) - 1))
             last == seq[Len(seq)]
         IN  IF last \in RangeOf(front) THEN front ELSE Append(front, last)

\* desired.add((f_id, z_id)) raises TypeError for a zone entry that is a
\* dict: a dict is not hashable
DesiredRaises(farms) ==
    \E i \in 1..Len(farms) :
        \E j \in 1..Len(farms[i].zones) : farms[i].zones[j].kind = "obj"

\* the desired set of runners
Desired(farms) == RangeOf(ZonePairs(farms))

\* the overrides of a new runner: the config of the farms with its id
RECURSIVE OverridesOf(_, _)
OverridesOf(farms, f_id) ==
    IF Len(farms) = 0 THEN EmptyDict
    ELSE LET front == OverridesOf(SubSeq(farms, 1, Len(farms) - 1), f_id)
             farm == farms[Len(farms)]
         IN  IF farm.id = f_id /\ "config" \in DOMAIN farm
             THEN [k \in (DOMAIN front) \cup (DOMAIN farm.config) |->
                      IF k \in DOMAIN farm.config THEN farm.config[k] ELSE front[k]]
             ELSE front

\* EnvironmentRunner.__init__ and start: a connected client, a cleared stop
\* event, the thread at the head of its loop
EnvironmentRunner(farm_id, zone_id, config_overrides) ==
    [ farm_id |-> farm_id, zone_id |-> zone_id, overrides |-> config_overrides,
      pc |-> "check", stop_event |-> FALSE, connected |-> TRUE ]

\* EnvironmentRunner.stop: sets the stop event and disconnects the client;
\* it does not wait for the thread
Stop(runner) == [runner EXCEPT !.stop_event = TRUE, !.connected = FALSE]

\* the threads after the new runners of to_add have been started
RECURSIVE StartRunners(_, _, _)
StartRunners(threads, to_add, farms) ==
    IF Len(to_add) = 0 THEN threads
    ELSE StartRunners(
            Append(threads, EnvironmentRunner(to_add[1][1], to_add[1][2],
                                              OverridesOf(farms, to_add[1][1]))),
            Tail(to_add), farms)

\* the runners dict after the new runners of to_add, started as the threads
\* after the first `before`, have been entered
AddRunners(rs, to_add, before) ==
    [ key \in (DOMAIN rs) \cup RangeOf(to_add) |->
        IF key \in DOMAIN rs THEN rs[key]
        ELSE before + (CHOOSE i \in 1..Len(to_add) : to_add[i] = key) ]

\* the reload of main's loop for the document cfg
Reload(cfg, to_add, to_remove) ==
    /\ workers' = [ i \in 1..(Len(workers) + Len(to_add)) |->
                      IF i > Len(workers)
                      THEN StartRunners(workers, to_add, cfg.farms)[i]
                      ELSE IF \E key \in to_remove : runners[key] = i
                           THEN Stop(workers[i])
                           ELSE workers[i] ]
    /\ runners' = [ key \in (DOMAIN runners \cup RangeOf(to_add)) \ to_remove |->
                      AddRunners(runners, to_add, Len(workers))[key] ]

\* one pass of main's loop over a file whose modification time is new; a
\* pass over an absent file, or over an unchanged one, changes nothing
SupervisorPoll ==
    /\ topology_file.exists
    /\ file_mtime > last_mtime
    /\ last_mtime' = file_mtime
    /\ \E cfg \in { LoadSystemConfig(topology_file) } :
         IF DesiredRaises(cfg.farms)
         THEN UNCHANGED <<runners, workers>>
         ELSE Reload(cfg,
                     SelectSeq(Dedup(ZonePairs(cfg.farms)),
                               LAMBDA key : key \notin DOMAIN runners),
                     (DOMAIN runners) \ Desired(cfg.farms))

\* the thread of a runner goes from one place of run to the next
Goes(i, from, to) ==
    /\ i \in 1..Len(workers)
    /\ workers[i].pc = from
    /\ workers' = [workers EXCEPT ![i].pc = to]
    /\ UNCHANGED <<last_mtime, runners>>

\* while not self._stop_event.is_set()
WorkerChecks ==
    \E i \in 1..Len(workers) :
        Goes(i, "check", IF workers[i].stop_event THEN "done" ELSE "tick")

\* self._tick(SIM_STEP_S)
WorkerTicks == \E i \in 1..Len(workers) : Goes(i, "tick", "publish")

\* self._publish_sensors()
WorkerPublishes == \E i \in 1..Len(workers) : Goes(i, "publish", "wait")

\* self._stop_event.wait(SENSOR_INTERVAL_S) returns
WorkerWakes == \E i \in 1..Len(workers) : Goes(i, "wait", "check")

SupInit ==
    /\ last_mtime = 0
    /\ runners = EmptyDict
    /\ workers = <<>>

SupIdle == SupInit

-----------------------------------------------------------------------------
(* Part VI : the startup of the executor                                   *)

\* the zone level of a startup topic: f"{zone}" of the raw zone entry, which
\* for an entry that is an object is the text of the dict
ZoneText(entry) ==
    IF entry.kind = "str" THEN entry.id
    ELSE <<"{'id': '">> \o entry.id \o <<"'}">>

\* the (farm, zone) turns of _log_startup_off, in the order of the document
RECURSIVE StartupTurns(_)
StartupTurns(farms) ==
    IF Len(farms) = 0 THEN <<>>
    ELSE [i \in 1..Len(farms[1].zones) |-> <<farms[1].id, ZoneText(farms[1].zones[i])>>]
         \o StartupTurns(Tail(farms))

\* initial: actuator, command, state_str and numeric_fields of the
\* all-OFF commands
StartupInitial ==
    << [ actuator |-> "fan", command |-> << <<"action", "SET">>, <<"level", 0>> >>,
         fields |-> [state_str |-> <<"SET", 0>>, numeric |-> [level |-> 0, on |-> 0]] ],
       [ actuator |-> "heater", command |-> << <<"action", "SET">>, <<"level_pct", 0>> >>,
         fields |-> [state_str |-> <<"SET", 0>>, numeric |-> [level_pct |-> 0, on |-> 0]] ],
       [ actuator |-> "inlet", command |-> << <<"action", "SET">>, <<"open_pct", 0>> >>,
         fields |-> [state_str |-> <<"OPEN", 0>>, numeric |-> [open_pct |-> 0, on |-> 0]] ],
       [ actuator |-> "feed_dispenser", command |-> << <<"action", "OFF">> >>,
         fields |-> [state_str |-> <<"OFF", 0>>, numeric |-> [on |-> 0]] ],
       [ actuator |-> "water_valve", command |-> << <<"action", "OFF">> >>,
         fields |-> [state_str |-> <<"OFF", 0>>, numeric |-> [on |-> 0]] ],
       [ actuator |-> "light", command |-> << <<"action", "SET">>, <<"level_pct", 0>> >>,
         fields |-> [state_str |-> <<"SET", 0>>, numeric |-> [level_pct |-> 0, on |-> 0]] ] >>

\* the command message of step k of the startup: actuator (k - 1) % 6 + 1
\* of turn (k - 1) \div 6 + 1
StartupMessage(turns, k) ==
    LET turn == turns[((k - 1) \div Len(StartupInitial)) + 1]
        init == StartupInitial[((k - 1) % Len(StartupInitial)) + 1]
    IN  [ topic |-> Join4(turn[1], turn[2], <<"cmd">>, <<init.actuator>>),
          payload |-> [json |-> TRUE, text |-> init.command] ]

\* the Knowledge entry of step k of the startup
StartupEntry(turns, k) ==
    LET turn == turns[((k - 1) \div Len(StartupInitial)) + 1]
        init == StartupInitial[((k - 1) % Len(StartupInitial)) + 1]
    IN  [ farm |-> turn[1], zone |-> turn[2], actuator |-> init.actuator,
          fields |-> init.fields, payload |-> init.command ]

\* _log_startup_off over the document cfg; the Knowledge write of step fail
\* raises (0: none does) and ends start_executor
LogStartupOff(cfg, fail) ==
    LET turns == StartupTurns(cfg.farms)
        steps == Len(turns) * Len(StartupInitial)
        raises == fail \in 1..steps
    IN  [ out |-> [k \in 1..(IF raises THEN fail ELSE steps) |-> StartupMessage(turns, k)],
          log |-> [k \in 1..(IF raises THEN fail - 1 ELSE steps) |-> StartupEntry(turns, k)],
          pc |-> IF raises THEN "crashed" ELSE "up" ]

\* a document never has more zones
MaxZones == 2

\* start_executor up to the subscription
ExecutorStartup ==
    /\ executor_pc = "start"
    /\ \E fail \in 0..(MaxZones * Len(StartupInitial)) :
         \E r \in { LogStartupOff(LoadSystemConfig(topology_file), fail) } :
            /\ executor_pc' = r.pc
            /\ startup_out' = r.out
            /\ actuator_log' = r.log
    /\ UNCHANGED <<planner_in, planner_out, executor_in, executor_out>>

\* the bus before the executor has started
StartupInit ==
    /\ planner_in = NoMessage
    /\ planner_out = <<>>
    /\ executor_in = NoMessage
    /\ executor_out = <<>>
    /\ actuator_log = <<>>
    /\ executor_pc = "start"
    /\ startup_out = <<>>

-----------------------------------------------------------------------------
(* Part VII : the issue-driven planner with starvation handling            *)
(*                                                                         *)
(* Sensor values, durations and amounts are whole units here.  The program *)
(* multiplies a base priority by float factors and truncates with int();   *)
(* the model keeps every factor as a fraction <<numerator, denominator>>   *)
(* and truncates the exact quotient.  The program stores instants          *)
(* (_issue_history, _last_action_time) and only ever uses their distance   *)
(* to the current time; the model stores that distance in seconds, and     *)
(* stops counting where the program's result no longer depends on it.      *)

NoIssue == "None"

NoTime == 0 - 1

\* ISSUE_PRIORITIES.get(issue, 5)
ISSUE_PRIORITIES(issue) ==
    CASE issue = "TEMP_HIGH"       -> 10
      [] issue = "TEMP_LOW"        -> 10
      [] issue = "AIR_QUALITY_BAD" -> 9
      [] issue = "WATER_LOW"       -> 8
      [] issue = "FEED_LOW"        -> 7
      [] OTHER                     -> 5

IssueNames ==
    {"TEMP_HIGH", "TEMP_LOW", "AIR_QUALITY_BAD", "WATER_LOW", "FEED_LOW"}

ActuatorNames == {"fan", "heater", "feeder", "water_valve"}

\* CONFLICTS.get(component, [])
CONFLICTS(component) ==
    CASE component = "heater" -> {"fan"}
      [] component = "fan"    -> {"heater"}
      [] OTHER                -> {}

starvation_threshold == 300

\* the seconds over which the starvation factor grows by 1.0
StarvationSlope == 600

min_interval == 30

\* the defaults of _thresholds and _actuator_config, which hold whenever the
\* configuration service has not supplied the key
max_temp == 28

min_temp == 20

max_ammonia == 25

min_level == 20

FanDuration == 60

HeaterDuration == 60

VentilationDuration == 120

FeederAmount == 10

ValveDuration == 10

\* the age from which the starvation factor stays at its maximum 1.5
AgeSaturated == starvation_threshold + (StarvationSlope \div 2)

\* severity_multiplier before the starvation penalty, as a fraction
SeverityMultiplier(issue, value) ==
    CASE issue = "TEMP_HIGH" /\ value > max_temp ->
             <<max_temp + value, 2 * max_temp>>
      [] issue = "TEMP_LOW" /\ value < min_temp ->
             <<3 * min_temp - value, 2 * min_temp>>
      [] issue = "AIR_QUALITY_BAD" /\ value > max_ammonia ->
             <<max_ammonia + value, 2 * max_ammonia>>
      [] issue \in {"FEED_LOW", "WATER_LOW"} /\ value < min_level ->
             <<13 * min_level - 3 * value, 10 * min_level>>
      [] OTHER -> <<1, 1>>

\* min(1.5, 1.0 + (time_since_first - threshold) / 600), as a fraction
StarvationFactor(time_since_first) ==
    IF time_since_first > starvation_threshold
    THEN <<Min((3 * StarvationSlope) \div 2,
               StarvationSlope + time_since_first - starvation_threshold),
           StarvationSlope>>
    ELSE <<1, 1>>

\* _calculate_priority for an issue in _issue_history
CalculatePriority(issue, value, time_since_first) ==
    LET s == SeverityMultiplier(issue, value)
        f == StarvationFactor(time_since_first)
    IN  (ISSUE_PRIORITIES(issue) * s[1] * f[1]) \div (s[2] * f[2])

\* a dict with insertion order: a sequence of <<key, value>> pairs
DictKeys(d) == { d[i][1] : i \in 1..Len(d) }

DictGet(d, key, default) ==
    IF key \in DictKeys(d)
    THEN d[CHOOSE i \in 1..Len(d) : d[i][1] = key][2]
    ELSE default

DictSet(d, key, value) ==
    IF key \in DictKeys(d)
    THEN [i \in 1..Len(d) |-> IF d[i][1] = key THEN <<key, value>> ELSE d[i]]
    ELSE Append(d, <<key, value>>)

\* deque.remove
Remove(queue, issue) == SelectSeq(queue, LAMBDA x : x # issue)

\* _check_starvation
CheckStarvation(c, issue) ==
    IF /\ issue \in DOMAIN c.issue_history
       /\ c.issue_history[issue].seconds >= starvation_threshold
       /\ issue \notin RangeOf(c.starvation_queue)
    THEN [c EXCEPT !.starvation_queue = Append(@, issue)]
    ELSE c

\* register_issue; the timestamp is the current time, naive or aware.
\* "datetime.now() - self._issue_history[issue]" raises TypeError when the
\* stored instant is aware: the call then ends after _issue_history and
\* _active_issues have been written
RegisterIssue(c, issue, value, aware) ==
    LET first == IF issue \in DOMAIN c.issue_history
                 THEN c.issue_history[issue]
                 ELSE [seconds |-> 0, aware |-> aware]
        c1 == [c EXCEPT !.issue_history = Put(@, issue, first),
                        !.active_issues =
                            Put(@, issue, [value |-> value, first_detected |-> first])]
    IN  IF first.aware
        THEN [c |-> c1, raised |-> TRUE]
        ELSE [c |-> CheckStarvation(
                        [c1 EXCEPT !.issue_priority =
                             DictSet(@, issue,
                                     CalculatePriority(issue, value, first.seconds))],
                        issue),
              raised |-> FALSE]

\* clear_issue
ClearIssue(c, issue) ==
    [c EXCEPT !.issue_history = [i \in (DOMAIN @) \ {issue} |-> @[i]],
              !.active_issues = [i \in (DOMAIN @) \ {issue} |-> @[i]],
              !.issue_priority = SelectSeq(@, LAMBDA e : e[1] # issue),
              !.starvation_queue = Remove(@, issue)]

\* get_starvation_issue: sorted() is stable, so among equal priorities the
\* issue queued first comes first
GetStarvationIssue(c) ==
    IF c.starvation_queue = <<>>
    THEN [issue |-> NoIssue, priority |-> 0]
    ELSE LET q == c.starvation_queue
             prio(i) == DictGet(c.issue_priority, q[i], 0)
             best == CHOOSE i \in 1..Len(q) :
                         /\ \A j \in 1..Len(q) : prio(j) <= prio(i)
                         /\ \A j \in 1..(i - 1) : prio(j) < prio(i)
         IN  [issue |-> q[best], priority |-> prio(best)]

\* get_highest_priority_issue: max() returns the first maximal item
GetHighestPriorityIssue(c) ==
    LET starved == GetStarvationIssue(c)
        d == c.issue_priority
        top == CHOOSE i \in 1..Len(d) :
                   /\ \A j \in 1..Len(d) : d[j][2] <= d[i][2]
                   /\ \A j \in 1..(i - 1) : d[j][2] < d[i][2]
        ValueOf(issue) == Get(c.active_issues, issue, [value |-> 0]).value
    IN  IF d # <<>>
        THEN IF /\ starved.issue # NoIssue
                /\ 10 * starved.priority >= 8 * d[top][2]
             THEN [issue |-> starved.issue, priority |-> starved.priority,
                   value |-> ValueOf(starved.issue)]
             ELSE [issue |-> d[top][1], priority |-> d[top][2],
                   value |-> ValueOf(d[top][1])]
        ELSE IF starved.issue # NoIssue
             THEN [issue |-> starved.issue, priority |-> starved.priority,
                   value |-> ValueOf(starved.issue)]
             ELSE [issue |-> NoIssue, priority |-> 0, value |-> 0]

\* calculate_duration
CalculateDuration(issue, value, base_duration) ==
    CASE issue = "TEMP_HIGH" /\ value > max_temp ->
             Min(2 * base_duration, (base_duration * value) \div max_temp)
      [] issue = "TEMP_LOW" /\ value < min_temp ->
             Min(2 * base_duration,
                 (base_duration * (2 * min_temp - value)) \div min_temp)
      [] issue = "AIR_QUALITY_BAD" /\ value > max_ammonia ->
             Min((5 * base_duration) \div 2,
                 (base_duration * (3 * value - max_ammonia)) \div (2 * max_ammonia))
      [] issue = "WATER_LOW" /\ value < min_level ->
             Min(3 * base_duration,
                 (base_duration * (3 * min_level - 2 * value)) \div min_level)
      [] OTHER -> base_duration

\* the amount plan_actions computes for FEED_LOW
FeedAmount(value) ==
    IF value < min_level
    THEN Max(FeederAmount, (2 * FeederAmount * (min_level - value)) \div min_level)
    ELSE FeederAmount

\* resolve_conflicts: an action whose component conflicts with one planned
\* before it takes that one's place
RECURSIVE ResolveFrom(_, _, _)
ResolveFrom(actions, i, resolved_actions) ==
    IF i > Len(actions)
    THEN resolved_actions
    ELSE ResolveFrom(actions, i + 1,
             Append(SelectSeq(resolved_actions,
                              LAMBDA a : a.component \notin CONFLICTS(actions[i].component)),
                    actions[i]))

ResolveConflicts(actions) == ResolveFrom(actions, 1, <<>>)

\* should_execute_action without its interval test
ShouldExecuteAlways(c, actuator) == TRUE

ShouldExecuteAction(c, actuator) ==
    \/ c.last_action_time[actuator] = NoTime
    \/ c.last_action_time[actuator] >= min_interval

SetActuatorState(c, actuator, on) ==
    [c EXCEPT !.actuator_states[actuator] = on,
              !.last_action_time[actuator] = 0]

\* one "if should_execute_action: append; set_actuator_state" of plan_actions
Attempt(r, action, on) ==
    IF ShouldExecuteAction(r.c, action.component)
    THEN [c |-> SetActuatorState(r.c, action.component, on),
          raw |-> Append(r.raw, action)]
    ELSE r

\* plan_actions before its resolve_conflicts
PlannedFor(c, issue, value) ==
    LET r == [c |-> c, raw |-> <<>>]
    IN  CASE issue = "TEMP_HIGH" ->
                 Attempt(Attempt(r, [component |-> "fan", action |-> "ON",
                                     duration |-> CalculateDuration(issue, value, FanDuration)],
                                 TRUE),
                         [component |-> "heater", action |-> "OFF", duration |-> 0],
                         FALSE)
          [] issue = "TEMP_LOW" ->
                 Attempt(Attempt(r, [component |-> "heater", action |-> "ON",
                                     duration |-> CalculateDuration(issue, value, HeaterDuration)],
                                 TRUE),
                         [component |-> "fan", action |-> "OFF", duration |-> 0],
                         FALSE)
          [] issue = "AIR_QUALITY_BAD" ->
                 Attempt(r, [component |-> "fan", action |-> "ON",
                             duration |-> CalculateDuration(issue, value, VentilationDuration)],
                         TRUE)
          [] issue = "FEED_LOW" ->
                 Attempt(r, [component |-> "feeder", action |-> "DISPENSE",
                             amount |-> FeedAmount(value)],
                         TRUE)
          [] issue = "WATER_LOW" ->
                 Attempt(r, [component |-> "water_valve", action |-> "OPEN",
                             duration |-> CalculateDuration(issue, value, ValveDuration)],
                         TRUE)
          [] OTHER -> r

PlanActions(c, issue, value) ==
    LET r == PlannedFor(c, issue, value)
    IN  [c |-> r.c, raw |-> r.raw, actions |-> ResolveConflicts(r.raw)]

\* the rounds of get_multi_parameter_plan; selected collects what
\* get_highest_priority_issue returned in each, recorded the actions for
\* which plan_actions called set_actuator_state
RECURSIVE MultiRounds(_, _, _, _, _, _)
MultiRounds(c, all_actions, processed_issues, selected, recorded, rounds) ==
    IF rounds = 0
    THEN [c |-> c, actions |-> all_actions, selected |-> selected,
          recorded |-> recorded]
    ELSE LET h == GetHighestPriorityIssue(c)
         IN  IF h.issue = NoIssue \/ h.issue \in processed_issues
             THEN [c |-> c, actions |-> all_actions,
                   selected |-> Append(selected, h.issue),
                   recorded |-> recorded]
             ELSE LET p == PlanActions(c, h.issue, h.value)
                  IN  MultiRounds([p.c EXCEPT !.starvation_queue = Remove(@, h.issue)],
                                  all_actions \o p.actions,
                                  processed_issues \cup {h.issue},
                                  Append(selected, h.issue),
                                  recorded \o p.raw,
                                  rounds - 1)

MultiRoundsMax == 3

GetMultiParameterPlan(c) ==
    LET r == MultiRounds(c, <<>>, {}, <<>>, <<>>, MultiRoundsMax)
    IN  [c |-> r.c, actions |-> ResolveConflicts(r.actions),
         selected |-> r.selected, recorded |-> r.recorded]

\* the farm/analysis messages: issue, sensor value, and whether the
\* timestamp carries a UTC offset ("...Z" or "...+00:00")
AnalysisPayloads ==
    { [issue |-> "TEMP_HIGH", val |-> 30, aware |-> FALSE],
      [issue |-> "TEMP_LOW", val |-> 15, aware |-> FALSE],
      [issue |-> "FEED_LOW", val |-> 15, aware |-> FALSE],
      [issue |-> "FEED_LOW", val |-> 5, aware |-> FALSE],
      [issue |-> "FEED_LOW", val |-> 15, aware |-> TRUE] }

NoPayload == [issue |-> NoIssue, val |-> 0, aware |-> FALSE]

NoPlanning ==
    [selected |-> <<>>, issue |-> NoIssue, raw |-> <<>>, actions |-> <<>>,
     recorded |-> <<>>, gaps |-> EmptyDict]

NoPlan ==
    [related_issue |-> NoIssue, original_issue |-> NoIssue, priority |-> 0,
     actions |-> <<>>]

\* the actuators a list of actions commands
ComponentsIn(actions) == { actions[k].component : k \in 1..Len(actions) }

\* Planner.plan for one farm/analysis message; on_message logs what
\* register_issue raises and publishes nothing
PlannerPlan ==
    \E m \in AnalysisPayloads :
    \E reg \in {RegisterIssue(computation, m.issue, m.val, m.aware)} :
      IF reg.raised
      THEN /\ computation' = reg.c
           /\ analysis_payload' = m
           /\ planning' = NoPlanning
           /\ farm_plan' = NoPlan
           /\ published_at' = published_at
      ELSE
        \E h \in {GetHighestPriorityIssue(reg.c)} :
        \E current \in {IF h.issue # NoIssue THEN h
                        ELSE [issue |-> m.issue, priority |-> h.priority,
                              value |-> m.val]} :
        \E p \in {PlanActions(reg.c, current.issue, current.value)} :
        \E multi \in {IF h.issue # m.issue
                      THEN GetMultiParameterPlan(p.c)
                      ELSE [c |-> p.c, actions |-> <<>>, selected |-> <<>>,
                            recorded |-> <<>>]} :
        \E actions \in {IF multi.actions # <<>> THEN multi.actions ELSE p.actions} :
            /\ computation' = multi.c
            /\ analysis_payload' = m
            /\ planning' = [selected |-> <<h.issue>> \o multi.selected,
                            issue |-> current.issue,
                            raw |-> p.raw, actions |-> p.actions,
                            recorded |-> p.raw \o multi.recorded,
                            gaps |-> [a \in ComponentsIn(actions) \cap DOMAIN published_at
                                          |-> published_at[a]]]
            /\ farm_plan' = IF actions # <<>>
                            THEN [related_issue |-> current.issue,
                                  original_issue |-> m.issue,
                                  priority |-> h.priority,
                                  actions |-> actions]
                            ELSE NoPlan
            /\ published_at' = [a \in ComponentsIn(actions) \cup DOMAIN published_at |->
                                   IF a \in ComponentsIn(actions) THEN 0
                                   ELSE published_at[a]]

\* the seconds that pass between two messages
Delays == {160}

\* a shorter pause between two messages
Moments == {15}

\* an instant that lies further back by some seconds
Older(instant, seconds) ==
    [instant EXCEPT !.seconds = Min(AgeSaturated, @ + seconds)]

\* time passes: every stored instant lies further back
Elapse(c, seconds) ==
    [c EXCEPT !.issue_history = [i \in DOMAIN @ |-> Older(@[i], seconds)],
              !.active_issues =
                  [i \in DOMAIN @ |->
                      [@[i] EXCEPT !.first_detected = Older(@, seconds)]],
              !.last_action_time =
                  [a \in ActuatorNames |->
                      IF @[a] = NoTime THEN NoTime
                      ELSE Min(min_interval, @[a] + seconds)]]

Passes(seconds) ==
    /\ computation' = Elapse(computation, seconds)
    /\ computation' # computation
    /\ analysis_payload' = NoPayload
    /\ planning' = NoPlanning
    /\ farm_plan' = NoPlan
    /\ published_at' = [a \in DOMAIN published_at |->
                           Min(min_interval, published_at[a] + seconds)]

TimePasses == \E seconds \in Delays : Passes(seconds)

\* the age of the oldest issue up to which short pauses are explored
MaxMomentAge == 15

MomentPasses ==
    /\ \A i \in DOMAIN computation.issue_history :
           computation.issue_history[i].seconds < MaxMomentAge
    /\ \E seconds \in Moments : Passes(seconds)

\* the arguments of the methods of Computation when they are called one by
\* one: issue, value, and whether the timestamp is aware
CallArguments ==
    { [issue |-> "TEMP_HIGH", val |-> 30, aware |-> FALSE],
      [issue |-> "FEED_LOW", val |-> 15, aware |-> FALSE],
      [issue |-> "FEED_LOW", val |-> 15, aware |-> TRUE] }

RegisterCall ==
    \E m \in CallArguments :
        /\ computation' = RegisterIssue(computation, m.issue, m.val, m.aware).c
        /\ analysis_payload' = m
        /\ UNCHANGED <<planning, farm_plan, published_at>>

ClearCall ==
    \E issue \in { m.issue : m \in CallArguments } :
        /\ computation' = ClearIssue(computation, issue)
        /\ analysis_payload' = NoPayload
        /\ UNCHANGED <<planning, farm_plan, published_at>>

PlanActionsCall ==
    \E m \in CallArguments :
        /\ computation' = PlanActions(computation, m.issue, m.val).c
        /\ analysis_payload' = NoPayload
        /\ UNCHANGED <<planning, farm_plan, published_at>>

MultiPlanCall ==
    /\ computation' = GetMultiParameterPlan(computation).c
    /\ analysis_payload' = NoPayload
    /\ UNCHANGED <<planning, farm_plan, published_at>>

\* _init_state
CompInit ==
    /\ computation =
           [issue_history |-> EmptyDict,
            last_action_time |-> [a \in ActuatorNames |-> NoTime],
            issue_priority |-> <<>>,
            starvation_queue |-> <<>>,
            active_issues |-> EmptyDict,
            actuator_states |-> [a \in ActuatorNames |-> FALSE]]
    /\ analysis_payload = NoPayload
    /\ planning = NoPlanning
    /\ farm_plan = NoPlan
    /\ published_at = EmptyDict

CompIdle == CompInit

-----------------------------------------------------------------------------
(* Part VIII : the callback thread and the loop thread of a worker         *)

SENSOR_INTERVAL_S == 5

\* step from its start to the clamp of the requested actuator values
StepHead(s, dt_s) ==
    LET s0 == [s EXCEPT !.sim_time_s = s.sim_time_s + dt_s]
        auto_control_active == s0.auto_control /\ s0.sim_time_s >= STARTUP_OVERRIDE_S
    IN  OverrideAndClamp(IF auto_control_active THEN AutoControl(s0) ELSE s0)

\* step from the actuator dynamics to its end
StepTail(s, dt_s) ==
    Activity(FeedWater(Gases(Temperature(ActuatorDynamics(s, dt_s), dt_s), dt_s), dt_s), dt_s)

\* a lock that lets everybody in
LockIgnored(t) == TRUE

\* `with self._lock` enters only when no thread holds the lock
LockFree(t) == t.lock = "free"

\* the fields EnvironmentState(**self.state.__dict__) reads first: the six
\* sensors
FirstCopied == {"temperature_c", "co2_ppm", "nh3_ppm", "feed_kg", "water_l", "activity"}

\* the command messages the callback thread receives
LockCommands ==
    { [actuator |-> "fan", kind |-> "object", data |-> [action |-> "SET", level |-> 100000]],
      [actuator |-> "water_valve", kind |-> "object", data |-> [duration_s |-> 90000]],
      [actuator |-> "light", kind |-> "object", data |-> [action |-> "SET", level_pct |-> NotANumber]],
      [actuator |-> "fan", kind |-> "invalid", data |-> <<>>] }

MaxLockCommands == 2

MaxLockTime == 75

\* no thread runs
NoThreads ==
    [ lock |-> "free", callback |-> "idle", cmd |-> <<>>, received |-> 0,
      loop |-> "top", sim_accum_s |-> 0, snapshot |-> <<>>,
      whole |-> <<>>, whole_at_copy |-> <<>> ]

LockIdle == runner_threads = NoThreads

\* the worker after start(): the callback thread waits for a message, the
\* loop thread is at the head of run's loop
LockInit == runner_threads = [NoThreads EXCEPT !.whole = state]

\* _on_message up to the lock: a payload that is not JSON returns at once
CallbackReceives ==
    \E m \in LockCommands :
        /\ runner_threads.callback = "idle"
        /\ runner_threads.received < MaxLockCommands
        /\ runner_threads' = [runner_threads EXCEPT !.received = @ + 1,
                                      !.cmd = m,
                                      !.callback = IF m.kind = "invalid" THEN "idle"
                                                   ELSE "parsed"]
        /\ UNCHANGED simVars

\* with self._lock, entered by the callback thread
CallbackAcquires ==
    /\ runner_threads.callback = "parsed"
    /\ LockFree(runner_threads)
    /\ runner_threads' = [runner_threads EXCEPT !.lock = "callback", !.callback = "applying"]
    /\ UNCHANGED simVars

\* self._apply_command(actuator, data) and the exit of the with block,
\* also when the call raises
CallbackApplies ==
    /\ runner_threads.callback = "applying"
    /\ state' = OnMessage(state, runner_threads.cmd)
    /\ runner_threads' = [runner_threads EXCEPT !.lock = "free", !.callback = "idle",
                                  !.whole = OnMessage(@, runner_threads.cmd)]
    /\ UNCHANGED <<SIM_STEP_S, accepted, last_op, fan_prev_transition_s>>

\* self._sim_accum_s += SENSOR_INTERVAL_S
LoopAccumulates ==
    /\ runner_threads.loop = "top"
    /\ state.sim_time_s < MaxLockTime
    /\ runner_threads' = [runner_threads EXCEPT !.sim_accum_s = @ + SENSOR_INTERVAL_S, !.loop = "while"]
    /\ UNCHANGED simVars

\* while self._sim_accum_s >= SIM_STEP_S is over
LoopLeavesWhile ==
    /\ runner_threads.loop = "while"
    /\ runner_threads.sim_accum_s < SIM_STEP_S
    /\ runner_threads' = [runner_threads EXCEPT !.loop = "snapshot"]
    /\ UNCHANGED simVars

\* _tick: with self._lock, and step as far as the clamp
TickAcquires ==
    /\ runner_threads.loop = "while"
    /\ runner_threads.sim_accum_s >= SIM_STEP_S
    /\ LockFree(runner_threads)
    /\ state' = StepHead(state, SIM_STEP_S)
    /\ runner_threads' = [runner_threads EXCEPT !.lock = "tick", !.loop = "stepping"]
    /\ UNCHANGED <<SIM_STEP_S, accepted, last_op, fan_prev_transition_s>>

\* the rest of step, the exit of the with block and
\* self._sim_accum_s -= SIM_STEP_S
TickReleases ==
    /\ runner_threads.loop = "stepping"
    /\ state' = StepTail(state, SIM_STEP_S)
    /\ runner_threads' = [runner_threads EXCEPT !.lock = "free", !.loop = "while",
                                  !.sim_accum_s = @ - SIM_STEP_S,
                                  !.whole = Step(@, SIM_STEP_S)]
    /\ UNCHANGED <<SIM_STEP_S, accepted, last_op, fan_prev_transition_s>>

\* _snapshot: with self._lock, and the copy of the first fields
SnapshotAcquires ==
    /\ runner_threads.loop = "snapshot"
    /\ LockFree(runner_threads)
    /\ runner_threads' = [runner_threads EXCEPT !.lock = "snapshot", !.loop = "copying",
                                  !.snapshot = [f \in FirstCopied |-> state[f]],
                                  !.whole_at_copy = runner_threads.whole]
    /\ UNCHANGED simVars

\* the copy of the other fields and the exit of the with block
SnapshotReleases ==
    /\ runner_threads.loop = "copying"
    /\ runner_threads' = [runner_threads EXCEPT !.lock = "free", !.loop = "publish",
                                  !.snapshot = [f \in DOMAIN state |->
                                                   IF f \in FirstCopied THEN @[f]
                                                   ELSE state[f]]]
    /\ UNCHANGED simVars

\* _publish_sensors publishes the snapshot, and the wait of run's loop
LoopPublishes ==
    /\ runner_threads.loop = "publish"
    /\ runner_threads' = [runner_threads EXCEPT !.loop = "top"]
    /\ UNCHANGED simVars

-----------------------------------------------------------------------------
(* Specifications                                                          *)

\* the variables of the parts a specification leaves idle
\* the variables of the monitor, the analyzer, the topology file, the
\* supervisor and the issue planner
farmVars == <<knowVars, fileVars, supVars, compVars, lockVars>>

FarmIdle == KnowIdle /\ FileIdle /\ SupIdle /\ CompIdle /\ LockIdle

restOfSim == <<planVars, busVars, farmVars>>

restOfPlanner == <<simVars, busVars, farmVars>>

InitSim == SimInit /\ PlanIdle /\ BusIdle /\ FarmIdle

NextSim ==
    \/ OnCommand /\ UNCHANGED restOfSim
    \/ Tick /\ UNCHANGED restOfSim

SpecSim == InitSim /\ [][NextSim]_vars

InitPlanner == SimIdle /\ PlanInit /\ BusIdle /\ FarmIdle

NextPlanner == OnStatus /\ UNCHANGED restOfPlanner

SpecPlanner == InitPlanner /\ [][NextPlanner]_vars

NextRefill == OnRefillStatus /\ UNCHANGED restOfPlanner

SpecRefill == InitPlanner /\ [][NextRefill]_vars

\* the planner on the bus: status messages in, plan messages out
InitPlannerBus == SimIdle /\ PlanIdle /\ BusIdle /\ FarmIdle

NextPlannerBus == PlannerReceives /\ UNCHANGED <<simVars, farmVars>>

SpecPlannerBus == InitPlannerBus /\ [][NextPlannerBus]_vars

\* the planner and the statuses of two zones
NextZones == PlannerReceivesZones /\ UNCHANGED <<simVars, farmVars>>

SpecZones == InitPlannerBus /\ [][NextZones]_vars

\* planner and executor on the bus
NextExecutor ==
    \/ PlannerReceivesFew /\ UNCHANGED <<simVars, farmVars>>
    \/ ExecutorReceives /\ UNCHANGED <<simVars, planVars, farmVars>>

SpecExecutor == InitPlannerBus /\ [][NextExecutor]_vars

\* the zones' sensor messages, the monitor and the analyzer over Knowledge
restOfKnowledge == <<simVars, planVars, busVars, fileVars, supVars, compVars, lockVars>>

InitKnowledge ==
    /\ SimIdle /\ PlanIdle /\ BusIdle /\ KnowInit /\ FileInit /\ SupIdle /\ CompIdle
    /\ LockIdle

NextKnowledge ==
    \/ SensorPublished /\ UNCHANGED restOfKnowledge
    \/ AnalyzerCycle /\ UNCHANGED restOfKnowledge

SpecKnowledge == InitKnowledge /\ [][NextKnowledge]_vars

\* the analyzer over a Knowledge that holds farm-tagged sensor values
InitStatus ==
    /\ SimIdle /\ PlanIdle /\ BusIdle /\ StatusInit /\ FileIdle /\ SupIdle /\ CompIdle
    /\ LockIdle

NextStatus == AnalyzerCycle /\ UNCHANGED restOfKnowledge

SpecStatus == InitStatus /\ [][NextStatus]_vars

\* the executor from its start
InitStartup ==
    /\ SimIdle /\ PlanIdle /\ StartupInit /\ KnowIdle /\ FileInit /\ SupIdle /\ CompIdle
    /\ LockIdle

NextStartup ==
    \/ ExecutorStartup /\ UNCHANGED <<simVars, planVars, farmVars>>
    \/ ExecutorReceives /\ UNCHANGED <<simVars, planVars, farmVars>>

SpecStartup == InitStartup /\ [][NextStartup]_vars

\* the supervisor, its workers and the edits of the topology file
restOfSupervisor == <<simVars, planVars, busVars, knowVars, compVars, lockVars>>

InitSupervisor ==
    /\ SimIdle /\ PlanIdle /\ BusIdle /\ KnowIdle /\ FileInit /\ SupInit /\ CompIdle
    /\ LockIdle

NextSupervisor ==
    \/ EditTopology /\ UNCHANGED <<restOfSupervisor, supVars>>
    \/ SupervisorPoll /\ UNCHANGED <<restOfSupervisor, fileVars>>
    \/ WorkerChecks /\ UNCHANGED <<restOfSupervisor, fileVars>>
    \/ WorkerTicks /\ UNCHANGED <<restOfSupervisor, fileVars>>
    \/ WorkerPublishes /\ UNCHANGED <<restOfSupervisor, fileVars>>
    \/ WorkerWakes /\ UNCHANGED <<restOfSupervisor, fileVars>>

SpecSupervisor == InitSupervisor /\ [][NextSupervisor]_vars

\* the issue-driven planner and the clock
restOfComputation == <<simVars, planVars, busVars, knowVars, fileVars, supVars, lockVars>>

InitComputation ==
    /\ SimIdle /\ PlanIdle /\ BusIdle /\ KnowIdle /\ FileIdle /\ SupIdle /\ CompInit
    /\ LockIdle

NextComputation ==
    \/ PlannerPlan /\ UNCHANGED restOfComputation
    \/ TimePasses /\ UNCHANGED restOfComputation

SpecComputation == InitComputation /\ [][NextComputation]_vars

\* the same with a clock that keeps running
SpecComputationFair == SpecComputation /\ WF_compVars(TimePasses)

\* the same with short pauses between the first messages
NextInterval ==
    \/ PlannerPlan /\ UNCHANGED restOfComputation
    \/ TimePasses /\ UNCHANGED restOfComputation
    \/ MomentPasses /\ UNCHANGED restOfComputation

SpecInterval == InitComputation /\ [][NextInterval]_vars

\* the methods of Computation called in any order
NextCalls ==
    \/ RegisterCall /\ UNCHANGED restOfComputation
    \/ ClearCall /\ UNCHANGED restOfComputation
    \/ PlanActionsCall /\ UNCHANGED restOfComputation
    \/ MultiPlanCall /\ UNCHANGED restOfComputation
    \/ TimePasses /\ UNCHANGED restOfComputation

SpecCalls == InitComputation /\ [][NextCalls]_vars

\* the two runner_threads of one worker
restOfLock == <<planVars, busVars, knowVars, fileVars, supVars, compVars>>

InitLock ==
    /\ SimInit /\ PlanIdle /\ BusIdle /\ KnowIdle /\ FileIdle /\ SupIdle /\ CompIdle
    /\ LockInit

NextLock ==
    \/ CallbackReceives /\ UNCHANGED restOfLock
    \/ CallbackAcquires /\ UNCHANGED restOfLock
    \/ CallbackApplies /\ UNCHANGED restOfLock
    \/ LoopAccumulates /\ UNCHANGED restOfLock
    \/ LoopLeavesWhile /\ UNCHANGED restOfLock
    \/ TickAcquires /\ UNCHANGED restOfLock
    \/ TickReleases /\ UNCHANGED restOfLock
    \/ SnapshotAcquires /\ UNCHANGED restOfLock
    \/ SnapshotReleases /\ UNCHANGED restOfLock
    \/ LoopPublishes /\ UNCHANGED restOfLock

SpecLock == InitLock /\ [][NextLock]_vars


-----------------------------------------------------------------------------
(* Claims about the simulator, checked under SpecSim                       *)

InRange(x, low, high) == low <= x /\ x <= high

\* C1: after any tick the physical state and every actuator level and
\* commanded target of the simulator are inside their ranges: temperature
\* in [10, 40], CO2 in [400, 6000], NH3 in [0, 200], feed in [0, hopper
\* capacity], water in [0, tank capacity], activity in [0, 1], levels and
\* commands in [0, 100].
C1_StateInRange ==
    last_op.op = "tick" =>
        /\ InRange(state.temperature_c, 10000, 40000)
        /\ InRange(state.co2_ppm, 400000, 6000000)
        /\ InRange(state.nh3_ppm, 0, 200000)
        /\ InRange(state.feed_kg, 0, FEED_HOPPER_CAPACITY_KG)
        /\ InRange(state.water_l, 0, WATER_TANK_CAPACITY_L)
        /\ InRange(state.activity, 0, 1000)
        /\ \A f \in {"fan_level", "heater_level", "inlet_open_pct", "light_level_pct",
                     "fan_level_command", "heater_level_command",
                     "inlet_open_pct_command", "light_level_pct_command"} :
               InRange(state[f], 0, 100000)

\* C1 witness: after commands were accepted, a tick has filled the water
\* tank to its capacity and ramped the light to the clamped target of an
\* out-of-range command.
C1_Witness ==
    /\ last_op.op = "tick"
    /\ accepted > 0
    /\ state.water_l = WATER_TANK_CAPACITY_L
    /\ state.light_level_pct_command = 100000

\* C5: fan_on flips only in a tick; OFF -> ON only with a fan command > 0
\* and at least MIN_FAN_OFF_S since fan_last_switch_s, ON -> OFF only with a
\* command of 0 and at least MIN_FAN_ON_S; a flip is never closer to the
\* previous flip than that dwell time.
C5_FanDwell ==
    [][ state'.fan_on # state.fan_on =>
          /\ last_op'.op = "tick"
          /\ state'.fan_on =>
                /\ state'.fan_level_command > 0
                /\ state'.sim_time_s - state.fan_last_switch_s >= MIN_FAN_OFF_S
                /\ fan_prev_transition_s >= 0 =>
                       state'.sim_time_s - fan_prev_transition_s >= MIN_FAN_OFF_S
          /\ ~state'.fan_on =>
                /\ state'.fan_level_command = 0
                /\ state'.sim_time_s - state.fan_last_switch_s >= MIN_FAN_ON_S
                /\ fan_prev_transition_s >= 0 =>
                       state'.sim_time_s - fan_prev_transition_s >= MIN_FAN_ON_S ]_vars

\* C5 witness: the fan has been switched on and, a dwell later, off again.
C5_Witness ==
    /\ ~state.fan_on
    /\ fan_prev_transition_s >= MIN_FAN_OFF_S + MIN_FAN_ON_S
    /\ state.fan_last_switch_s = fan_prev_transition_s

\* C6: a command applied while sim_time_s < STARTUP_OVERRIDE_S leaves every
\* field of EnvironmentState unchanged, for every actuator and payload.
C6_LockoutRejects ==
    [][ (last_op'.op = "cmd" /\ state.sim_time_s < STARTUP_OVERRIDE_S) =>
            state' = state ]_vars

\* C6 witness: a water_valve command has arrived during the startup
\* override, after the first tick.
C6_Witness ==
    /\ last_op.op = "cmd"
    /\ last_op.actuator = "water_valve"
    /\ state.sim_time_s > 0
    /\ state.sim_time_s < STARTUP_OVERRIDE_S

\* a tick that directly follows a fan {level: 100} command received during
\* the startup override
FanFullInLockoutThenTick ==
    /\ last_op.op = "cmd"
    /\ last_op.actuator = "fan"
    /\ Get(last_op.data, "level", 0) = 100000
    /\ state.sim_time_s < STARTUP_OVERRIDE_S
    /\ last_op'.op = "tick"

\* C7 as claimed: a fan {level: 100} command received while sim_time_s <
\* STARTUP_OVERRIDE_S, followed by the next tick, leaves fan_level_command
\* = 0 and fan_level = 0, also on the tick that reaches STARTUP_OVERRIDE_S.
C7_Original ==
    [][ FanFullInLockoutThenTick =>
            (state'.fan_level_command = 0 /\ state'.fan_level = 0) ]_vars

\* C7 as amended: after such a command and tick fan_level is 0 and the
\* command's level is not taken; fan_level_command is 0 when the tick ends
\* inside the startup override, and on the tick that reaches
\* STARTUP_OVERRIDE_S it is what auto-control sets: AUTO_FAN_LEVEL when the
\* temperature is at least FAN_ON_TEMP_C, else 0.
C7_Amended ==
    [][ FanFullInLockoutThenTick =>
          /\ state'.sim_time_s < MIN_FAN_OFF_S => state'.fan_level = 0
          /\ state'.sim_time_s < STARTUP_OVERRIDE_S => state'.fan_level_command = 0
          /\ state'.sim_time_s >= STARTUP_OVERRIDE_S =>
                state'.fan_level_command =
                    IF state.auto_control /\ state.temperature_c >= FAN_ON_TEMP_C
                    THEN AUTO_FAN_LEVEL ELSE 0 ]_vars

\* C7 witness: the tick after a rejected fan {level: 100} command has
\* reached STARTUP_OVERRIDE_S and auto-control has set the fan command.
C7_Witness ==
    /\ last_op.op = "tick"
    /\ last_op.cmd_before = <<"fan", [action |-> "SET", level |-> 100000]>>
    /\ state.sim_time_s = STARTUP_OVERRIDE_S
    /\ state.fan_level_command = AUTO_FAN_LEVEL
    /\ state.fan_level = 0


-----------------------------------------------------------------------------
(* Claims about the planner, checked under SpecPlanner and SpecRefill      *)

\* the rate limit of a continuous actuator, percent per minute
RateOf(cfg, a) ==
    CASE a = "fan" -> cfg.fan_rate_limit_per_min
      [] a = "heater" -> cfg.heater_rate_limit_per_min
      [] a = "inlet" -> cfg.inlet_rate_limit_per_min
      [] OTHER -> cfg.light_rate_limit_per_min

\* the step emits a plan with a level for actuator a, and the plan before
\* it carried one too
EmitsAgain(a) ==
    /\ handled' = handled + 1
    /\ HasAction(plan', a)
    /\ HasAction(plan, a)
    /\ a \in DOMAIN emitted

\* C2 as claimed: two consecutive emissions of a level of the same
\* continuous actuator, a time dt apart, differ by at most
\* rate_limit_per_min * dt / 60.
C2_Original ==
    [][ \A a \in {"fan", "heater", "inlet", "light"} :
          EmitsAgain(a) =>
            Abs(emitted'[a].level - emitted[a].level) * 600000
                <= RateOf(sys_config, a) * (emitted'[a].ts - emitted[a].ts) ]_vars

\* C2 as amended: the levels the planner records (before int()) differ by at
\* most rate_limit_per_min * max(dt, 0.1) / 60, so the emitted integer
\* levels differ by less than that bound plus 1.
C2_Amended ==
    [][ \A a \in {"fan", "heater", "inlet", "light"} :
          EmitsAgain(a) =>
            LET k == <<status'.farm_id, status'.zone, a>>
                dt == Max(1, emitted'[a].ts - emitted[a].ts)
            IN  /\ emitted'[a].level = PyInt(LAST_LEVELS'[k])
                /\ emitted[a].level = PyInt(LAST_LEVELS[k])
                /\ Abs(LAST_LEVELS'[k] - LAST_LEVELS[k]) * 600
                       <= RateOf(sys_config, a) * dt
                /\ (Abs(emitted'[a].level - emitted[a].level) - 1) * 600000
                       < RateOf(sys_config, a) * dt ]_vars

\* C2 witness: on a hot status the emitted fan level is held below its
\* target of 46 % by the rate limit.
C2_Witness ==
    /\ handled >= 2
    /\ status.temperature_c = 30000
    /\ "fan" \in DOMAIN emitted
    /\ emitted["fan"].level > 10
    /\ emitted["fan"].level < 46

\* the heater latch of the zone of status st in a latch dict
Latch(hstate, st) == Get(hstate, HeaterKey(st.farm_id, st.zone), FALSE)

\* C3: the heater latch flips on -> off only when T >= setpoint + deadband
\* and heater_min_on_s has elapsed since its last flip, off -> on only when
\* T <= setpoint - deadband and heater_min_off_s has elapsed since its last
\* flip (and since the recorded switch time); it does not change while T is
\* strictly inside the deadband.
C3_HeaterLatch ==
    [][ handled' = handled + 1 =>
          LET T == status'.temperature_c
              sp == sys_config.temp_setpoint
              db == sys_config.heater_deadband_c
              old == Latch(HEATER_STATE, status')
              new == Latch(HEATER_STATE', status')
              since == Get(HEATER_SWITCH_TS, HeaterKey(status'.farm_id, status'.zone), now')
          IN  /\ (old /\ ~new) =>
                    /\ T # None /\ T >= sp + db
                    /\ heater_flip_ts >= 0
                    /\ now' - heater_flip_ts >= sys_config.heater_min_on_s
              /\ (~old /\ new) =>
                    /\ T # None /\ T <= sp - db
                    /\ now' - since >= sys_config.heater_min_off_s
                    /\ heater_flip_ts >= 0 =>
                           now' - heater_flip_ts >= sys_config.heater_min_off_s
              /\ (T # None /\ sp - db < T /\ T < sp + db) => new = old ]_vars

\* C3 witness: the latch has been switched on and, later, off again.
C3_Witness ==
    /\ handled > 0
    /\ heater_flip_ts > StartClock
    /\ ~Latch(HEATER_STATE, status)
    /\ status.temperature_c >= sys_config.temp_setpoint + sys_config.heater_deadband_c

\* the refill state a plan shows for a dispenser; off before the first plan
RefillOn(actions, actuator) ==
    HasAction(actions, actuator) /\ CommandOf(actions, actuator).action = "ON"

\* the refill states FeedScenario must give
FeedExpected == <<FALSE, TRUE, TRUE, TRUE, FALSE>>

\* C4: the feed and water refill latches are Schmitt triggers: on -> off only
\* on a value >= the high threshold, off -> on only on a value <= the low
\* threshold, unchanged on a missing value; feed values 2.0, 1.4, 1.0, 1.8,
\* 2.6 with low 1.5 and high 2.5 give OFF, ON, ON, ON, OFF.
C4_RefillLatch ==
    [][ handled' = handled + 1 =>
          /\ \A x \in { <<"feed_dispenser", status'.feed_kg,
                         sys_config.feed_refill_low_kg, sys_config.feed_refill_high_kg>>,
                        <<"water_valve", status'.water_l,
                         sys_config.water_refill_low_l, sys_config.water_refill_high_l>> } :
                LET old == RefillOn(plan, x[1])
                    new == RefillOn(plan', x[1])
                IN  /\ HasAction(plan', x[1])
                    /\ (old /\ ~new) => (x[2] # None /\ x[2] >= x[4])
                    /\ (~old /\ new) => (x[2] # None /\ x[2] <= x[3])
                    /\ x[2] = None => new = old
          /\ scenario_pos' >= 1 =>
                RefillOn(plan', "feed_dispenser") = FeedExpected[scenario_pos'] ]_vars

\* C4 witness: the five statuses of the feed scenario have been handled.
C4_Witness ==
    /\ scenario_pos = Len(FeedScenario)
    /\ ~RefillOn(plan, "feed_dispenser")

\* C8 as claimed: a status without temperature_c and without co2_ppm still
\* gives a plan with a fan action (whose target is fan_max).
C8_Original ==
    (handled > 0 /\ status.temperature_c = None /\ status.co2_ppm = None) =>
        HasAction(plan, "fan")

\* C9 as claimed: on the first status of a zone, T <= setpoint - deadband
\* turns the heater latch on whatever heater_min_off_s is, and the plan has
\* a heater SET with level_pct >= heater_min_level.
C9_Original ==
    (/\ handled = 1
     /\ status.temperature_c # None
     /\ status.temperature_c <= sys_config.temp_setpoint - sys_config.heater_deadband_c) =>
        /\ Latch(HEATER_STATE, status)
        /\ HasAction(plan, "heater")
        /\ CommandOf(plan, "heater").level_pct * 1000 >= sys_config.heater_min_level

\* a plan with a fan action and a heater level above 0
HeatingWithFan(actions) ==
    /\ HasAction(actions, "heater")
    /\ CommandOf(actions, "heater").level_pct > 0
    /\ HasAction(actions, "fan")

\* C10 as claimed: in every plan with a heater level above 0 and a fan
\* action, the emitted fan level is >= heater_min_fan.
C10_Original ==
    HeatingWithFan(plan) =>
        CommandOf(plan, "fan").level * 1000 >= sys_config.heater_min_fan

\* C10 as amended: in such a plan the fan target is lifted to heater_min_fan
\* before the cold-weather cap and the rate limit, so the emitted fan level
\* is >= int(min(heater_min_fan, fan_cold_max_pct when the cold-weather cap
\* applies, previous fan level + fan_rate_limit_per_min * max(dt, 0.1) / 60)).
C10_Amended ==
    [][ (handled' = handled + 1 /\ HeatingWithFan(plan')) =>
          LET k == <<status'.farm_id, status'.zone, "fan">>
              lifted == IF ColdAndClean(status', sys_config)
                        THEN Min(sys_config.heater_min_fan, sys_config.fan_cold_max_pct)
                        ELSE sys_config.heater_min_fan
              dt == Max(1, now' - Get(LAST_TS, k, now'))
              reach == IF k \in DOMAIN LAST_LEVELS
                       THEN LAST_LEVELS[k] + (sys_config.fan_rate_limit_per_min * dt) \div 600
                       ELSE lifted
          IN  CommandOf(plan', "fan").level >= PyInt(Min(lifted, reach)) ]_vars

\* C10 witness: the heater runs and the rate limit holds the emitted fan
\* level below heater_min_fan.
C10_Witness ==
    /\ HeatingWithFan(plan)
    /\ CommandOf(plan, "fan").level * 1000 < sys_config.heater_min_fan
    /\ ~ColdAndClean(status, sys_config) \/ sys_config.fan_cold_max_pct >= sys_config.heater_min_fan


-----------------------------------------------------------------------------
(* Claims about the bus, checked under SpecPlannerBus and SpecExecutor     *)

\* the actions of a plan payload, decoded
ActionsOf(m) == Get(JsonLoads(m.payload.text), "actions", <<>>)

\* the plan payload carries an ON or OFF action for the actuator
CarriesOnOff(m, actuator) ==
    \E i \in 1..Len(ActionsOf(m)) :
        /\ ActuatorOf(ActionsOf(m)[i]) = actuator
        /\ Get(JsonLoads(CommandTextOf(ActionsOf(m)[i])), "action", "") \in {"ON", "OFF"}

\* a status message of a zone with a JSON object as payload
IsZoneStatus(m) ==
    /\ m.payload.json
    /\ Len(Split(m.topic)) = 3
    /\ Split(m.topic)[2] # <<>>

\* C11: for every status message of a zone whose payload is a JSON object,
\* with any subset of the sensor fields missing or null, the planner
\* publishes exactly one plan, on {farm}/{zone}/plan of the message's topic,
\* and the plan carries a feed_dispenser ON/OFF and a water_valve ON/OFF
\* action.
C11_AlwaysOnePlan ==
    (handled > 0 /\ IsZoneStatus(planner_in)) =>
        /\ Len(planner_out) = 1
        /\ planner_out[1].topic =
               Join3(Split(planner_in.topic)[1], Split(planner_in.topic)[2], <<"plan">>)
        /\ planner_out[1].payload.json
        /\ CarriesOnOff(planner_out[1], "feed_dispenser")
        /\ CarriesOnOff(planner_out[1], "water_valve")

\* C11 witness: a status without any sensor value, received on the topic of
\* farm2/zone2, has given one plan on farm2/zone2/plan.
C11_Witness ==
    /\ handled > 0
    /\ planner_in.topic = Join3(F2, Z2, <<"status">>)
    /\ DOMAIN JsonLoads(planner_in.payload.text) = {"farm_id", "zone", "co2_ppm", "feed_kg", "activity"}
    /\ status.co2_ppm = None /\ status.feed_kg = None /\ status.activity = None
    /\ Len(planner_out) = 1
    /\ planner_out[1].topic = Join3(F2, Z2, <<"plan">>)

\* C12 as claimed: every command the executor publishes for a plan received
\* on {farm}/{zone}/plan is on {farm}/{zone}/cmd/{actuator} with that farm
\* and that zone, whatever the payload carries.
C12_Original ==
    \A i \in 1..Len(executor_out) :
        LET to == Split(executor_out[i].topic)
            from == Split(executor_in.topic)
        IN  /\ Len(to) = 4
            /\ to[1] = from[1]
            /\ to[2] = from[2]
            /\ to[3] = <<"cmd">>

\* C13 as claimed: for a plan published by the planner and consumed by the
\* executor, the executor publishes exactly one cmd/{actuator} message per
\* action, in the plan's order, with the JSON text of the action's command
\* as payload.
C13_Original ==
    (Len(planner_out) = 1 /\ executor_in = planner_out[1]) =>
        /\ Len(executor_out) = Len(plan)
        /\ \A i \in 1..Len(executor_out) :
              /\ executor_out[i].topic =
                     Join4(Split(planner_in.topic)[1], Split(planner_in.topic)[2],
                           <<"cmd">>, <<plan[i].actuator>>)
              /\ executor_out[i].payload.text = JsonDumps(plan[i].command, CommandKeys)

\* the actions of a plan message that name an actuator
NamedActions(m) ==
    SelectSeq(ActionsOf(m), LAMBDA a : ActuatorOf(a) # "")

\* C19 as claimed: when the Knowledge write of one action fails, the command
\* of that action and the commands of all later actions of the plan are
\* still published.
C19_Original ==
    Len(actuator_log) < Len(executor_out) =>
        Len(executor_out) = Len(NamedActions(executor_in))

\* the type tags and values of the primitive fields of a sensor message
ReadingsOf(m) ==
    LET data == JsonLoads(m.payload.text)
        fields == FieldsOfGroup(Split(m.topic)[4])
    IN  { <<fields[i][2], data[fields[i][1]]>> : i \in 1..Len(fields) }

\* the sensor message m was published by a zone of the topology
FromTopology(m) ==
    /\ m.payload.json
    /\ Len(Split(m.topic)) = 4
    /\ Len(FieldsOfGroup(Split(m.topic)[4])) > 0
    /\ <<Split(m.topic)[1], Split(m.topic)[2]>>
           \in RangeOf(ZonePairs(LoadSystemConfig(topology_file).farms))

\* C14 as claimed: after a sensor message of a zone of the topology, the
\* latest-value query for its farm, its zone and the type of each of its
\* primitive fields returns the value of the field.
C14_Original ==
    (sensor_count > 0 /\ FromTopology(sensor_msg)) =>
        \A r \in ReadingsOf(sensor_msg) :
            GetLatestSensorValue(sensor_points, Split(sensor_msg.topic)[2], r[1],
                                 Split(sensor_msg.topic)[1]) = r[2]

\* the live workers of the supervisor
LiveWorkers == DOMAIN runners

\* C15 as claimed: once the supervisor has processed the current document,
\* whose zone entries are bare strings or objects with an id, the live
\* workers are exactly the (farm, zone) pairs of the document.
C15_Original ==
    (topology_file.exists /\ topology_file.ok /\ last_mtime = file_mtime) =>
        LiveWorkers = Desired(topology_file.farms)

\* the thread i is ticking or publishing
Running(i) == workers[i].pc \in {"tick", "publish"}

\* C16 as claimed: at every moment at most one worker per (farm, zone) is
\* ticking or publishing.
C16_Original ==
    \A i, j \in 1..Len(workers) :
        ( /\ i # j
          /\ workers[i].farm_id = workers[j].farm_id
          /\ workers[i].zone_id = workers[j].zone_id ) =>
            ~(Running(i) /\ Running(j))

\* C17 as claimed: a reload over a file that exists but cannot be parsed
\* leaves the supervisor's live workers as they were.
C17_Original ==
    [][ (topology_file.exists /\ ~topology_file.ok /\ last_mtime' # last_mtime) =>
            runners' = runners ]_vars

\* C18 as claimed: no tick and no sensor publication of a worker happens
\* after its client has been disconnected.
C18_Original ==
    [][ \A i \in 1..Len(workers) :
            (Running(i) /\ workers'[i].pc # workers[i].pc) => workers[i].connected ]_vars

\* the analyzer has written the symptoms of the zone
SymptomsWritten(farm_id, zone) ==
    \E i \in 1..Len(symptom_points) :
        symptom_points[i].farm = farm_id /\ symptom_points[i].zone = zone

\* the analyzer has published the status of the zone
StatusPublished(farm_id, zone) ==
    \E i \in 1..Len(status_out) :
        status_out[i].topic = Join3(farm_id, zone, <<"status">>)

\* C20 as claimed: a zone whose symptoms write failed in a cycle of the
\* analyzer still has its status published in that cycle.
C20_Original ==
    analyzer_config.loaded =>
        \A key \in RangeOf(ZonePairs(analyzer_config.farms)) :
            ~SymptomsWritten(key[1], key[2]) => StatusPublished(key[1], key[2])

\* the status messages of a cycle whose zone turns raised nowhere, in the
\* order of the document
ExpectedStatusTopics ==
    LET pairs == ZonePairs(analyzer_config.farms)
        fine == SelectSeq([i \in 1..Len(pairs) |-> i],
                          LAMBDA i : analyzer_errors[i] = "none")
    IN  [i \in 1..Len(fine) |-> Join3(pairs[fine[i]][1], pairs[fine[i]][2], <<"status">>)]

\* C21: in a cycle of the analyzer an exception raised while building,
\* logging or publishing the status of one zone does not end the cycle:
\* every zone whose own turn raised nothing has its status published in
\* that cycle, and the next cycle can run.
C21_OtherZonesPublished ==
    analyzer_config.loaded =>
        /\ [i \in 1..Len(status_out) |-> status_out[i].topic] = ExpectedStatusTopics
        /\ ENABLED AnalyzerCycle

\* C21 witness: in a cycle over farm1 with zone1 and zone2 the turn of
\* zone1 raised in build_status and the status of zone2 was published.
C21_Witness ==
    /\ analyzer_config.loaded
    /\ ZonePairs(analyzer_config.farms) = << <<F1, Z1>>, <<F1, Z2>> >>
    /\ analyzer_errors = <<"build", "none">>
    /\ Len(status_out) = 1
    /\ status_out[1].topic = Join3(F1, Z2, <<"status">>)

\* C22: for each of the six sensor types, the status the analyzer builds
\* for a zone has the sensor's value null, its ok-flag false and its "No ..."
\* phrase in alert exactly when the latest-value query for the type returns
\* nothing, whatever the other five sensors hold.
C22_MissingReading ==
    \A i \in 1..Len(status_out) :
        \E d \in { JsonLoads(status_out[i].payload.text) } :
            \A s \in SensorTypes :
                \E v \in { GetLatestSensorValue(sensor_points, d.zone, s.type, d.farm_id) } :
                    /\ d[s.key] = v
                    /\ (v = None) => ~d[s.flag]
                    /\ (v = None) <=> (s.phrase \in RangeOf(d.alert))

\* C22 witness: Knowledge holds no temperature and good values of the other
\* five types, and the published status has temperature_c null, temp_ok
\* false, the other flags true and alert "No temperature".
C22_Witness ==
    /\ Len(status_out) = 1
    /\ \E d \in { JsonLoads(status_out[1].payload.text) } :
          /\ d.temperature_c = None /\ ~d.temp_ok
          /\ d.co2_ppm = 1500000 /\ d.co2_ok /\ d.nh3_ok /\ d.feed_ok
          /\ d.water_ok /\ d.activity_ok
          /\ d.alert = <<"No temperature">>

\* the startup commands published on the cmd topic of a zone's actuator
\* with the all-OFF command of the actuator
OffCommands(farm_id, zone, k) ==
    { i \in 1..Len(startup_out) :
        /\ startup_out[i].topic = Join4(farm_id, zone, <<"cmd">>, <<StartupInitial[k].actuator>>)
        /\ startup_out[i].payload.text = StartupInitial[k].command }

\* C23 as claimed: once the executor's startup is over, every (farm, zone)
\* of the topology has, for each of the six actuators, exactly one all-OFF
\* command on {farm}/{zone}/cmd/{actuator}; no plan is processed before.
C23_Original ==
    /\ (executor_pc = "start") => (executor_in = NoMessage)
    /\ (executor_pc # "start") =>
          \A key \in RangeOf(ZonePairs(LoadSystemConfig(topology_file).farms)) :
              \A k \in 1..Len(StartupInitial) :
                  Cardinality(OffCommands(key[1], key[2], k)) = 1

-----------------------------------------------------------------------------
(* Claims about the simulator's fallback and commands, checked under       *)
(* SpecSim                                                                 *)

\* a tick with auto-control enabled that ends at or after STARTUP_OVERRIDE_S
\* and finds the actuator's command never given or at least
\* AUTO_CONTROL_TIMEOUT_S old
StaleTick(cmd_last_s) ==
    /\ last_op'.op = "tick"
    /\ state.auto_control
    /\ state'.sim_time_s >= STARTUP_OVERRIDE_S
    /\ (cmd_last_s = 0 \/ state'.sim_time_s - cmd_last_s >= AUTO_CONTROL_TIMEOUT_S)

\* the inlet opening of the staged fan level of a fan command
InletPolicy(fan_level_command) == INLET_FOR_STAGE[StageFanLevel(fan_level_command)]

\* the light level of the day/night schedule at time t
LightPolicy(t) ==
    IF SIM_LIGHTS_ON_H <= TimeOfDayH(t) /\ TimeOfDayH(t) < SIM_LIGHTS_OFF_H
    THEN LIGHT_DAY_PCT ELSE LIGHT_NIGHT_PCT

\* C24 as claimed: a tick that finds an actuator stale replaces its
\* commanded target by the policy's value, whatever was commanded before:
\* the fan gets AUTO_FAN_LEVEL or 0 and the heater 100 or 0 by the
\* temperature thresholds, the inlet the opening of the staged fan level,
\* the light the level of the schedule.
C24_Original ==
    [][ /\ StaleTick(state.fan_cmd_last_s) =>
            /\ state'.fan_level_command \in {0, AUTO_FAN_LEVEL}
            /\ state.temperature_c >= FAN_ON_TEMP_C => state'.fan_level_command = AUTO_FAN_LEVEL
            /\ state.temperature_c <= FAN_OFF_TEMP_C => state'.fan_level_command = 0
        /\ StaleTick(state.heater_cmd_last_s) =>
            /\ state'.heater_level_command \in {0, 100000}
            /\ state.temperature_c <= HEATER_ON_TEMP_C => state'.heater_level_command = 100000
            /\ state.temperature_c >= HEATER_OFF_TEMP_C => state'.heater_level_command = 0
        /\ StaleTick(state.inlet_cmd_last_s) =>
            state'.inlet_open_pct_command = InletPolicy(state'.fan_level_command)
        /\ StaleTick(state.light_cmd_last_s) =>
            state'.light_level_pct_command = LightPolicy(state'.sim_time_s) ]_vars

\* C24 as amended: a tick that finds an actuator stale sets its commanded
\* target by the policy: the fan to the larger of its previous target and
\* AUTO_FAN_LEVEL when the temperature is at least FAN_ON_TEMP_C, to 0 when
\* it is at most FAN_OFF_TEMP_C, and leaves it between the two; the heater
\* to 100 at or below HEATER_ON_TEMP_C, to 0 at or above HEATER_OFF_TEMP_C,
\* and leaves it between the two; the inlet to the opening of the staged
\* fan command; the light to the level of the day/night schedule.
C24_Amended ==
    [][ /\ StaleTick(state.fan_cmd_last_s) =>
            state'.fan_level_command =
                IF state.temperature_c >= FAN_ON_TEMP_C
                THEN Max(state.fan_level_command, AUTO_FAN_LEVEL)
                ELSE IF state.temperature_c <= FAN_OFF_TEMP_C THEN 0
                ELSE state.fan_level_command
        /\ StaleTick(state.heater_cmd_last_s) =>
            state'.heater_level_command =
                IF state.temperature_c <= HEATER_ON_TEMP_C THEN 100000
                ELSE IF state.temperature_c >= HEATER_OFF_TEMP_C THEN 0
                ELSE state.heater_level_command
        /\ StaleTick(state.inlet_cmd_last_s) =>
            state'.inlet_open_pct_command = InletPolicy(state'.fan_level_command)
        /\ StaleTick(state.light_cmd_last_s) =>
            state'.light_level_pct_command = LightPolicy(state'.sim_time_s) ]_vars

\* C24 witness: a heater command given at 60 s was AUTO_CONTROL_TIMEOUT_S
\* old at the tick that ended at 360 s, and that tick has set the heater
\* target to 0 while the heater was still running.
C24_Witness ==
    /\ last_op.op = "tick"
    /\ state.auto_control
    /\ state.heater_cmd_last_s = 60
    /\ state.sim_time_s = 60 + AUTO_CONTROL_TIMEOUT_S
    /\ state.heater_level_command = 0
    /\ state.heater_level > 0

\* a command that names a target state: a SET of fan, heater, inlet or
\* light, or an ON/OFF
TargetCommand(op) ==
    /\ op.op = "cmd"
    /\ op.kind = "object"
    /\ op.actuator \in {"fan", "heater", "inlet", "light"} \/ IsOnOff(op.data)

\* C25: a target-state command that repeats the command handled just
\* before it leaves the simulator state as the first one left it, and the
\* tick after the two gives the state the tick after one would give.
C25_Idempotent ==
    [][ (TargetCommand(last_op') /\ last_op'.repeat) =>
            /\ state' = state
            /\ Step(state', SIM_STEP_S) = Step(state, SIM_STEP_S) ]_vars

\* C25 witness: fan {level: -20} was accepted twice in succession after
\* auto-control had set the fan target, and the target is 0.
C25_Witness ==
    /\ TargetCommand(last_op)
    /\ last_op.repeat
    /\ last_op.actuator = "fan"
    /\ Get(last_op.data, "level", 0) = 0 - 20000
    /\ accepted = 2
    /\ state.fan_cmd_last_s = state.sim_time_s
    /\ state.fan_level_command = 0
    /\ state.fan_level > 0

\* a pulsed feed_dispenser or water_valve command accepted after the
\* startup override
PulseAccepted(actuator) ==
    /\ last_op'.op = "cmd"
    /\ last_op'.kind = "object"
    /\ last_op'.actuator = actuator
    /\ ~IsOnOff(last_op'.data)
    /\ state.sim_time_s >= STARTUP_OVERRIDE_S

\* C26 as claimed: a pulsed command adds its duration to the remaining
\* countdown of the refill: amount_g / flow seconds for the feed dispenser,
\* duration_s for the water valve.
C26_Original ==
    [][ /\ PulseAccepted("water_valve") =>
              state'.water_refill_remaining_s =
                  state.water_refill_remaining_s + Max(0, Get(last_op'.data, "duration_s", 0))
        /\ PulseAccepted("feed_dispenser") =>
              state'.feed_refill_remaining_s =
                  state.feed_refill_remaining_s
                  + Max(0, Get(last_op'.data, "amount_g", 0)) \div (FEED_REFILL_FLOW_KG_S \div 1000) ]_vars

\* a command whose payload is malformed for its actuator: not JSON, JSON
\* that is no object, a SET without its level, a level that is no number
Malformed(op) ==
    /\ op.op = "cmd"
    /\ \/ op.kind # "object"
       \/ <<op.actuator, op.data>> \in MalformedObjects

\* C27 as claimed: a malformed command leaves EnvironmentState unchanged.
C27_Original ==
    [][ Malformed(last_op') => state' = state ]_vars

-----------------------------------------------------------------------------
(* Claims about the issue-driven planner                                   *)

\* the issue of the message handled last
Registered(issue) == analysis_payload.issue = issue

\* the actuators plan_actions commands for an issue
ComponentsOf(issue) ==
    CASE issue \in {"TEMP_HIGH", "TEMP_LOW"} -> {"fan", "heater"}
      [] issue = "AIR_QUALITY_BAD"           -> {"fan"}
      [] issue = "FEED_LOW"                  -> {"feeder"}
      [] issue = "WATER_LOW"                 -> {"water_valve"}
      [] OTHER                               -> {}

HasComponent(actions, component) ==
    \E k \in 1..Len(actions) : actions[k].component = component

HasCommand(actions, component, action) ==
    \E k \in 1..Len(actions) :
        actions[k].component = component /\ actions[k].action = action

\* get_highest_priority_issue returned the issue while the message was
\* handled, and the plan published for the message commands one of the
\* issue's actuators
SelectedAndPublished(issue) ==
    /\ issue \in RangeOf(planning.selected)
    /\ \E component \in ComponentsOf(issue) :
           HasComponent(farm_plan.actions, component)

Served(issue) == ([]<>Registered(issue)) => <>SelectedAndPublished(issue)

\* C28 as claimed: an issue that keeps being registered is eventually
\* selected by get_highest_priority_issue and has its actions published,
\* whatever other issues stay active.
C28_Original == Served("TEMP_HIGH") /\ Served("TEMP_LOW") /\ Served("FEED_LOW")

\* the issues in _active_issues
ActiveIssues == DOMAIN computation.active_issues

\* C29 as claimed: when TEMP_HIGH and FEED_LOW are the active issues,
\* FEED_LOW was first detected 320 s ago and has just been re-registered,
\* the priority selection returns FEED_LOW.
C29_Original ==
    ( /\ Registered("FEED_LOW")
      /\ ActiveIssues = {"TEMP_HIGH", "FEED_LOW"}
      /\ ~computation.issue_history["FEED_LOW"].aware
      /\ computation.issue_history["FEED_LOW"].seconds = 320 )
        => planning.selected[1] = "FEED_LOW"

\* the actuator that answers the issue, and the opposed one
Winning(issue) == IF issue = "TEMP_HIGH" THEN "fan" ELSE "heater"

Opposed(issue) == IF issue = "TEMP_HIGH" THEN "heater" ELSE "fan"

\* C30 as claimed: when plan_actions has built a fan and a heater action
\* for TEMP_HIGH or TEMP_LOW, the resolved plan keeps the ON of the
\* issue's own actuator (fan for TEMP_HIGH, heater for TEMP_LOW) and drops
\* the action of the opposed one.
C30_Original ==
    \A issue \in {"TEMP_HIGH", "TEMP_LOW"} :
        ( /\ planning.issue = issue
          /\ HasComponent(planning.raw, "fan")
          /\ HasComponent(planning.raw, "heater") )
            => /\ HasCommand(planning.actions, Winning(issue), "ON")
               /\ ~HasComponent(planning.actions, Opposed(issue))

\* C31: the actions of a published plan name each actuator at most once,
\* and an actuator that had an action published before gets its next one
\* min_interval seconds later at the earliest.
C31_MinInterval ==
    /\ \A a \in DOMAIN planning.gaps : planning.gaps[a] >= min_interval
    /\ \A j, k \in 1..Len(farm_plan.actions) :
           farm_plan.actions[j].component = farm_plan.actions[k].component => j = k

\* C31 witness: a second heater action has been published, min_interval
\* or more after the one before it.
C31_Witness ==
    /\ "heater" \in DOMAIN planning.gaps
    /\ planning.gaps["heater"] >= min_interval
    /\ HasComponent(farm_plan.actions, "heater")

\* C39 as claimed: every action for which plan_actions recorded the
\* actuator's state and last-action time while the message was handled is
\* among the actions of the plan published for the message.
C39_Original ==
    \A k \in 1..Len(planning.recorded) :
        planning.recorded[k] \in RangeOf(farm_plan.actions)

\* the dicts of Computation agree on their keys and on first_detected, and
\* the starvation queue holds issues of _issue_history, each once
KeysAgree ==
    /\ DOMAIN computation.active_issues = DOMAIN computation.issue_history
    /\ DictKeys(computation.issue_priority) = DOMAIN computation.issue_history
    /\ \A i \in DOMAIN computation.active_issues :
           i \in DOMAIN computation.issue_history =>
               computation.active_issues[i].first_detected = computation.issue_history[i]
    /\ RangeOf(computation.starvation_queue) \subseteq DOMAIN computation.issue_history
    /\ \A j, k \in 1..Len(computation.starvation_queue) :
           computation.starvation_queue[j] = computation.starvation_queue[k] => j = k

\* the instant stored for an issue is the same after a call of a method
FirstDetectedKept ==
    \/ \E seconds \in Delays : computation' = Elapse(computation, seconds)
    \/ \A i \in DOMAIN computation.issue_history \cap DOMAIN computation'.issue_history :
           computation'.issue_history[i] = computation.issue_history[i]

\* C40 as claimed: after every call of register_issue, clear_issue,
\* plan_actions and get_multi_parameter_plan the three dicts have the same
\* keys, first_detected equals the instant in _issue_history, which no call
\* but clear_issue changes, and the starvation queue holds issues of
\* _issue_history without duplicates.
C40_Original == [][KeysAgree' /\ FirstDetectedKept]_vars

\* the supervisor has processed the current topology document
ReloadProcessed ==
    /\ topology_file.exists
    /\ last_mtime = file_mtime
    /\ ~DesiredRaises(LoadSystemConfig(topology_file).farms)

\* C32 as claimed: after a reload is processed, the live worker of every
\* zone of the topology has the newly resolved configuration of its zone as
\* parameters, also when the zone was in the topology before the change.
C32_Original ==
    ReloadProcessed =>
        \A key \in DOMAIN runners :
            workers[runners[key]].overrides =
                OverridesOf(LoadSystemConfig(topology_file).farms, key[1])

\* the priority the specification gives to an actuator
ClaimedPriority(actuator) ==
    CASE actuator = "fan" -> 1
      [] actuator = "heater" -> 1
      [] actuator = "inlet" -> 2
      [] actuator = "feed_dispenser" -> 3
      [] actuator = "water_valve" -> 3
      [] actuator = "light" -> 4
      [] OTHER -> 0

\* the executor has consumed the plan the planner has just published
PlanConsumed == Len(planner_out) = 1 /\ executor_in = planner_out[1]

\* the actuator level of the topic of a command message
CommandActuator(m) == Split(m.topic)[4]

\* C33: in every plan of the planner the actions carry the priorities
\* fan=1, heater=1, inlet=2, feed_dispenser=3, water_valve=3, light=4, appear
\* in non-decreasing priority order with each actuator at most once, and the
\* commands the executor publishes for the plan follow the plan's order: the
\* k-th command is the command of the k-th action, and when every Knowledge
\* write succeeded there is one command per action.
C33_PriorityOrder ==
    /\ \A i \in 1..Len(plan) : plan[i].priority = ClaimedPriority(plan[i].actuator)
    /\ \A i, j \in 1..Len(plan) : i < j => plan[i].priority <= plan[j].priority
    /\ \A i, j \in 1..Len(plan) : plan[i].actuator = plan[j].actuator => i = j
    /\ PlanConsumed =>
          /\ Len(executor_out) <= Len(plan)
          /\ \A k \in 1..Len(executor_out) :
                /\ CommandActuator(executor_out[k]) = <<plan[k].actuator>>
                /\ executor_out[k].payload.text = JsonDumps(plan[k].command, CommandKeys)
          /\ Len(actuator_log) = Len(executor_out) => Len(executor_out) = Len(plan)

\* a plan with the fan, the inlet and the light, of which the executor has
\* published every command
C33_Witness ==
    /\ PlanConsumed
    /\ Len(plan) >= 5
    /\ \E i, j \in 1..Len(plan) :
          /\ plan[i].actuator = "inlet"
          /\ plan[j].actuator = "water_valve"
          /\ i < j
    /\ Len(executor_out) = Len(plan)

\* the actuators that have a commanded target
TargetActuators == {"fan", "heater", "inlet", "light"}

\* the commanded target of an actuator in the state s
TargetOf(s, actuator) ==
    CASE actuator = "fan" -> s.fan_level_command
      [] actuator = "heater" -> s.heater_level_command
      [] actuator = "inlet" -> s.inlet_open_pct_command
      [] actuator = "light" -> s.light_level_pct_command

\* the simulated time of the last accepted command of an actuator
CmdLastOf(s, actuator) ==
    CASE actuator = "fan" -> s.fan_cmd_last_s
      [] actuator = "heater" -> s.heater_cmd_last_s
      [] actuator = "inlet" -> s.inlet_cmd_last_s
      [] actuator = "light" -> s.light_cmd_last_s

\* the command <<actuator, data>> names a numeric target or ON / OFF
NamesTarget(actuator, data) ==
    /\ actuator \in TargetActuators
    /\ ~FloatRaises(actuator, data)
    /\ actuator = "heater" =>
           "level_pct" \in DOMAIN data \/ Get(data, "action", "") \in {"ON", "OFF"}

\* the target a command names, clamped to 0..100
ClampedTarget(actuator, data) ==
    CASE actuator = "fan" -> Max(0, Min(100000, Get(data, "level", 0)))
      [] actuator = "heater" ->
            IF "level_pct" \in DOMAIN data THEN Max(0, Min(100000, data["level_pct"]))
            ELSE IF data["action"] = "ON" THEN 100000 ELSE 0
      [] actuator = "inlet" -> Max(0, Min(100000, Get(data, "open_pct", 0)))
      [] actuator = "light" -> Max(0, Min(100000, Get(data, "level_pct", 0)))

\* the step is the handling of a command object that names a target
TargetCommandStep ==
    /\ last_op'.op = "cmd"
    /\ last_op'.kind = "object"
    /\ NamesTarget(last_op'.actuator, last_op'.data)

\* last write wins: a command sets the target of its actuator to its own
\* clamped target, whatever the commands before it left there, and leaves
\* the targets of the other actuators alone
LastWriteWins ==
    /\ TargetCommandStep =>
           TargetOf(state', last_op'.actuator) =
               ClampedTarget(last_op'.actuator, last_op'.data)
    /\ last_op'.op = "cmd" =>
           \A a \in TargetActuators \ {last_op'.actuator} :
               TargetOf(state', a) = TargetOf(state, a)

\* the tick after commands keeps the target of every actuator commanded
\* since the tick before
TickUsesTarget ==
    last_op'.op = "tick" =>
        \A a \in TargetActuators :
            (CmdLastOf(state, a) = state.sim_time_s /\ state.sim_time_s > 0) =>
                TargetOf(state', a) = TargetOf(state, a)

\* the tick after a command that names a target ends with that target
TickAfterCommand ==
    ( /\ last_op'.op = "tick"
      /\ last_op.op = "cmd"
      /\ last_op.kind = "object"
      /\ NamesTarget(last_op.actuator, last_op.data) ) =>
        TargetOf(state', last_op.actuator) = ClampedTarget(last_op.actuator, last_op.data)

\* C34 as claimed: commands received between two ticks are applied in
\* arrival order, each overwriting the target of its own actuator only, and
\* the next tick uses the clamped target of the last command of each
\* actuator, whenever the commands are received.
C34_Original == [][LastWriteWins /\ TickUsesTarget /\ TickAfterCommand]_vars

\* C34 amended: the same for commands received when sim_time_s is at least
\* startup_override_s; a command received before is rejected and changes no
\* target.
C34_Amended ==
    [][ IF state.sim_time_s >= STARTUP_OVERRIDE_S
        THEN LastWriteWins /\ TickUsesTarget /\ TickAfterCommand
        ELSE last_op'.op = "cmd" => state' = state ]_vars

\* fan {level: 150} was received after fan {level: -20} with no tick in
\* between, both after the startup override, and the tick after them has
\* run with the fan target 100
C34_Witness ==
    /\ last_op.op = "tick"
    /\ last_op.prev_before = <<"fan", [action |-> "SET", level |-> 0 - 20000]>>
    /\ last_op.cmd_before = <<"fan", [action |-> "SET", level |-> 150000]>>
    /\ accepted = 2
    /\ state.fan_level_command = 100000
    /\ state.sim_time_s > STARTUP_OVERRIDE_S + SIM_STEP_S

\* the last accepted command of the actuator is fresh at the tick that ends
\* at the time t
Fresh(s, actuator, t) ==
    /\ CmdLastOf(s, actuator) # 0
    /\ t - CmdLastOf(s, actuator) < AUTO_CONTROL_TIMEOUT_S

\* C35: a tick that ends with sim_time_s >= startup_override_s leaves the
\* commanded target of every actuator among fan, heater, inlet and light
\* whose last accepted command is younger than auto_control_timeout_s as it
\* was before the tick, whatever the other actuators' commands are.
C35_FreshKept ==
    [][ (last_op'.op = "tick" /\ state'.sim_time_s >= STARTUP_OVERRIDE_S) =>
            \A a \in TargetActuators :
                Fresh(state, a, state'.sim_time_s) =>
                    TargetOf(state', a) = TargetOf(state, a) ]_vars

\* at least two ticks after fan {level: -20} was accepted the command is
\* fresh and the fan target is 0 in a barn at or above fan_on_temp_c, where
\* the policy would set AUTO_FAN_LEVEL; the heater was never commanded
C35_Witness ==
    /\ last_op.op = "tick"
    /\ state.sim_time_s >= STARTUP_OVERRIDE_S
    /\ Fresh(state, "fan", state.sim_time_s)
    /\ state.sim_time_s - state.fan_cmd_last_s >= 2 * SIM_STEP_S
    /\ state.fan_level_command = 0
    /\ state.temperature_c >= FAN_ON_TEMP_C
    /\ state.heater_cmd_last_s = 0

\* the state s with no refill switched on and no countdown running
WithoutRefill(s) ==
    [s EXCEPT !.feed_refill_on = FALSE, !.feed_refill_remaining_s = 0,
              !.water_refill_on = FALSE, !.water_refill_remaining_s = 0]

\* the tick has refilled the hopper / the tank: the level after it is above
\* the level the same tick leaves without a refill
FeedRefilled == state'.feed_kg > Step(WithoutRefill(state), SIM_STEP_S).feed_kg

WaterRefilled == state'.water_l > Step(WithoutRefill(state), SIM_STEP_S).water_l

\* the step is the handling of an OFF command of the actuator
OffStep(actuator) ==
    /\ last_op'.op = "cmd"
    /\ last_op'.kind = "object"
    /\ last_op'.actuator = actuator
    /\ IsOnOff(last_op'.data)
    /\ ~OnValue(last_op'.data)

\* C37: an OFF command of feed_dispenser or water_valve leaves the countdown
\* of a timed refill as it is; every tick after which the countdown is
\* still greater than 0 refills, whether or not OFF was applied, and with
\* the refill switched off a tick does not refill once the countdown has
\* reached 0.
C37_OffKeepsTimedRefill ==
    [][ /\ OffStep("feed_dispenser") =>
              state'.feed_refill_remaining_s = state.feed_refill_remaining_s
        /\ OffStep("water_valve") =>
              state'.water_refill_remaining_s = state.water_refill_remaining_s
        /\ last_op'.op = "tick" =>
              /\ state'.feed_refill_remaining_s > 0 => FeedRefilled
              /\ state'.water_refill_remaining_s > 0 => WaterRefilled
              /\ (~state.feed_refill_on /\ state'.feed_refill_remaining_s = 0) =>
                     ~FeedRefilled
              /\ (~state.water_refill_on /\ state'.water_refill_remaining_s = 0) =>
                     ~WaterRefilled ]_vars

\* water_valve {duration_s: 90} then water_valve OFF were accepted, and the
\* tick after them has refilled the tank with the countdown still running
C37_Witness ==
    /\ last_op.op = "tick"
    /\ last_op.prev_before = <<"water_valve", [duration_s |-> 90000]>>
    /\ last_op.cmd_before = <<"water_valve", [action |-> "OFF"]>>
    /\ accepted = 2
    /\ ~state.water_refill_on
    /\ state.water_refill_remaining_s = 90000 - 1000 * SIM_STEP_S
    /\ state.water_refill_remaining_s > 0

\* at most one thread is inside a with self._lock block
MutualExclusion ==
    ~(runner_threads.callback = "applying" /\ runner_threads.loop \in {"stepping", "copying"})

\* between two operations the state is what the whole operations so far
\* leave, one after the other
WholeOperations == runner_threads.loop # "stepping" => state = runner_threads.whole

\* the snapshot to publish is the state whole operations had left when the
\* copy began
WholeSnapshot == runner_threads.loop = "publish" => runner_threads.snapshot = runner_threads.whole_at_copy

\* nothing but the tick changes the state while the tick is under way
NoCommandMidTick ==
    (runner_threads.loop = "stepping" /\ runner_threads'.loop = "stepping") => state' = state

\* C36: ticks, command applications and snapshots of a zone's state are
\* mutually exclusive: no command is applied in the middle of a tick, and
\* every snapshot used for a sensor publication equals the state after a
\* whole number of completed ticks and command applications.
C36_MutualExclusion ==
    [][MutualExclusion' /\ WholeOperations' /\ WholeSnapshot' /\ NoCommandMidTick]_vars

\* after fan {level: 100} was applied and a tick has started the fan, the
\* snapshot is being copied while a second command waits for the lock
C36_Witness ==
    /\ runner_threads.loop = "copying"
    /\ runner_threads.callback = "parsed"
    /\ runner_threads.received = 2
    /\ state.fan_level_command = 100000
    /\ state.fan_level > 0

\* the key of a latch or of an emitted level belongs to the zone
OwnKey(key, farm, zone) == key[1] = farm /\ key[2] = zone

\* the entries of a dict of the planner whose keys satisfy own
OwnEntries(dict, own(_)) == [key \in {k \in DOMAIN dict : own(k)} |-> dict[key]]

\* the entries of the dict after the step whose keys do not satisfy own are
\* the entries it had before
OthersKept(before, after, own(_)) ==
    \A key \in DOMAIN after :
        ~own(key) => (key \in DOMAIN before /\ after[key] = before[key])

\* the planner's state of the zone farm / zone alone
StateOfZone(farm, zone) ==
    [ HEATER_STATE |-> OwnEntries(HEATER_STATE, LAMBDA k : k = HeaterKey(farm, zone)),
      HEATER_SWITCH_TS |-> OwnEntries(HEATER_SWITCH_TS, LAMBDA k : k = HeaterKey(farm, zone)),
      REFILL_STATE |-> OwnEntries(REFILL_STATE, LAMBDA k : OwnKey(k, farm, zone)),
      LAST_LEVELS |-> OwnEntries(LAST_LEVELS, LAMBDA k : OwnKey(k, farm, zone)),
      LAST_TS |-> OwnEntries(LAST_TS, LAMBDA k : OwnKey(k, farm, zone)) ]

\* the status received on the topic of farm / zone changes the state of
\* that zone only, and its plan is the plan that zone's state alone gives
ZoneAlone(farm, zone) ==
    /\ OthersKept(HEATER_STATE, HEATER_STATE', LAMBDA k : k = HeaterKey(farm, zone))
    /\ OthersKept(HEATER_SWITCH_TS, HEATER_SWITCH_TS', LAMBDA k : k = HeaterKey(farm, zone))
    /\ OthersKept(REFILL_STATE, REFILL_STATE', LAMBDA k : OwnKey(k, farm, zone))
    /\ OthersKept(LAST_LEVELS, LAST_LEVELS', LAMBDA k : OwnKey(k, farm, zone))
    /\ OthersKept(LAST_TS, LAST_TS', LAMBDA k : OwnKey(k, farm, zone))
    /\ plan' = BuildActions(status', sys_config, now', StateOfZone(farm, zone)).actions

\* C38 as claimed: the planner's state of a (farm, zone) is read and changed
\* only by the statuses received on that zone's status topic, so that a
\* status received for one zone never changes the plan later computed for
\* another zone.
C38_Original ==
    [][ (handled' = handled + 1 /\ ~PlannerIgnores(planner_in')) =>
            ZoneAlone(Split(planner_in'.topic)[1], Split(planner_in'.topic)[2]) ]_vars

=============================================================================
